---- MODULE Spec2Model ----
(***************************************************************************)
(* FarDriver Monitor (src/pc_display/FarDriver_Monitor.py).                *)
(*                                                                         *)
(* The model has three threads of the program and its environment:         *)
(*   - the GUI thread: toggle_connection / disconnect_device, one step per *)
(*     write of a shared global (the GIL interleaves threads between       *)
(*     bytecodes), and the update_display timer callback;                  *)
(*   - the worker thread run_ble_loop / scan_and_connect, one step per     *)
(*     statement that reads or writes a shared global or awaits;           *)
(*   - the disconnect_client helper threads disconnect_device spawns;      *)
(*   - the transport: scan results, connect / subscribe / write outcomes,  *)
(*     link loss, and notification frames handed to message_handler.       *)
(*                                                                         *)
(* Notification callbacks run on the worker's asyncio event loop, so a     *)
(* frame is handed to message_handler only while the worker is suspended   *)
(* at an await of scan_and_connect.  The callbacks of the GUI thread       *)
(* (button command, update_display, toggle_pause, toggle_recording,        *)
(* save_settings) run one at a time.  The only time the model keeps is the *)
(* age of ctr_data.last_update; sleeps and timeouts are steps that may     *)
(* take any time.                                                          *)
(*                                                                         *)
(* The data side is the telemetry store ctr_data (ControllerData) with its *)
(* recorder, and the packet history of packet_inspector (PacketInspector), *)
(* both written by message_handler.  message_handler and update_display    *)
(* are one step each where the claims checked do not depend on how the two *)
(* threads interleave inside them; RaceSpec and OrderSpec take them apart  *)
(* (HandlerStart, HandlerUpdate, DisplayReadFlag, DisplayClearFlag,        *)
(* DisplayShow).                                                           *)
(***************************************************************************)
EXTENDS Integers, Sequences, FiniteSets, TLC

\* ------------------------------------------------------------------ bounds
\* Matching devices in radio range (all carry a FarDriver / YuanQu name).
NumDevices == 2
\* Worker threads the model can hold (the code starts one; see toggle_connection).
MaxWorkers == 2
\* disconnect_client helper threads that can be pending at the same time.
MaxDiscThreads == 1
\* Time passes in steps of TickSeconds seconds (5.0 s is the only duration the
\* program compares the age of the last update with), and the model stops counting
\* the age of the last update after MaxTicks steps.
TickSeconds == 5
MaxTicks == 1
\* PacketInspector.max_history is 1000 in the source.  The specifications of the
\* packet history give it HistoryCapacity entries, so that it fills and evicts;
\* the other specifications, whose properties do not read the history, give it
\* SessionHistoryCapacity entries.
HistoryCapacity == 2
SessionHistoryCapacity == 0
\* update_performance_metrics keeps the last 100 latency samples in the source.
\* The specification of the latency window keeps LatencyWindow of them, so that
\* the window fills and evicts; the other specifications, whose properties do
\* not read the latency, keep SessionLatencyWindow.
LatencyWindow == 3
SessionLatencyWindow == 1
\* Largest count get_recent_packets is asked for.
MaxCount == 3
\* Recordings started (start_recording calls that succeed).
MaxSessions == 3
\* Samples a recording may hold before a further frame is delivered: a frame
\* appends up to four.
MaxSamples == 8
\* Samples recorded while the decoder is observed.
DecodeSamples == 4
\* Rejected frames counted in ctr_data.packet_errors.
MaxErrors == 1

\* ------------------------------------------------------- program constants
\* has_recent_data = (time.time() - ctr_data.last_update) < 5.0
StaleAfter == 5

Dev == 1..NumDevices
Workers == 1..MaxWorkers
\* client = None
NoClient == 0

\* The two substrings scan_and_connect looks for in device.name (line 2496;
\* YUANQU_DEVICE_NAME, line 52), character by character.
FarDriver == <<"F", "a", "r", "D", "r", "i", "v", "e", "r">>
YUANQU_DEVICE_NAME == <<"Y", "u", "a", "n", "Q", "u", "F", "O", "C", "9", "8", "2">>

VARIABLES
    is_connected,        \* global is_connected
    should_disconnect,   \* global should_disconnect
    ble_thread_running,  \* global ble_thread_running
    client,              \* global client: NoClient or the device its BleakClient is for
    conn,                \* conn[d]: the transport link of the BleakClient for d is up
    sub,                 \* sub[d]: start_notify succeeded on that link and it is up
    wpc,                 \* wpc[w]: position of worker thread w ("none" = not started,
                         \* "exit" = returned from run_ble_loop)
    devs,                \* devs[w]: devices the for loop of worker w has still to visit
    gpc,                 \* position of the GUI thread inside toggle_connection
    dthreads,            \* disconnect_client threads started and not yet run
    req,                 \* history: the last request made: "none", "connect", "disconnect",
                         \* or "reconnect" for a connect that follows a disconnect
    kaDead,              \* history: a keepalive write failed on the current client object
    fail,                \* history: the failure the worker met while no disconnect was
                         \* requested, until the next scan or disconnect request; or "none"
    discInLoop,          \* history: the worker was inside scan_and_connect when
                         \* disconnect_device was last entered
    ctr_data,            \* global ctr_data (ControllerData)
    terminal_paused,     \* global terminal_paused
    last_connection_state, \* update_connection_buttons: self._last_connection_state
    connect_btn,         \* state option of self.connect_btn: "normal" or "disabled"
    packet_history,      \* packet_inspector.packet_history
    max_history,         \* packet_inspector.max_history (never written after __init__)
    auto_save,           \* settings['auto_save']
    handler,             \* the update_value calls the message_handler call in progress
                         \* has still to make, as <<key, value>> pairs; <<>> when no
                         \* call is in progress
    display,             \* the update_display call in progress: its position, what
                         \* has_changes() read, and the values it has shown so far
    device_name,         \* device_name[d]: device.name in the advertisement of d, as
                         \* the sequence of its characters; <<>> for None
    latency_window,      \* the number of latency samples update_performance_metrics
                         \* keeps (the 100 of line 270)
    latencies            \* the latencies message_handler can measure with time.time()

sessionVars == <<is_connected, should_disconnect, ble_thread_running, client, conn, sub,
                 wpc, devs, gpc, dthreads, req, kaDead, fail, discInLoop>>

stepVars == <<handler, display>>
\* What no action changes.
fixedVars == <<max_history, device_name, latency_window, latencies>>
storeVars == <<ctr_data, packet_history, fixedVars, auto_save, stepVars>>
displayVars == <<terminal_paused, last_connection_state>>
viewVars == <<displayVars, connect_btn>>

vars == <<sessionVars, storeVars, viewVars>>

\* Suspension points of scan_and_connect: the event loop runs callbacks here.
AwaitPcs == {"scan", "connect", "settle", "subscribe", "sub_fail", "ka_write", "ka_sleep",
             "retry_sleep", "sc_cleanup"}
\* Positions inside scan_and_connect.
ScanConnectPcs == {"sc_while", "sc_cleanup", "scan", "for", "connect", "chk_conn", "settle",
                   "subscribe", "sub_fail", "ka_while", "ka_write", "ka_sleep", "after_ka",
                   "retry_chk", "retry_sleep"}

WorkerAt(S) == \E w \in Workers : wpc[w] \in S
LiveWorkers == {w \in Workers : wpc[w] \notin {"none", "exit"}}

Min(a, b) == IF a < b THEN a ELSE b

\* The devices of a scan result, in the order the for loop visits them.
RECURSIVE SetToSeq(_)
SetToSeq(S) ==
    IF S = {} THEN <<>>
    ELSE LET m == CHOOSE x \in S : \A y \in S : x <= y
         IN  <<m>> \o SetToSeq(S \ {m})

\* await client.disconnect(): the link goes down, or the call raises and it stays.
DisconnectOutcomes(c) ==
    IF c = NoClient \/ ~conn[c] THEN {<<conn, sub>>}
    ELSE {<<[conn EXCEPT ![c] = FALSE], [sub EXCEPT ![c] = FALSE]>>, <<conn, sub>>}

Init ==
    /\ is_connected = FALSE
    /\ should_disconnect = FALSE
    /\ ble_thread_running = FALSE
    /\ client = NoClient
    /\ conn = [d \in Dev |-> FALSE]
    /\ sub = [d \in Dev |-> FALSE]
    /\ wpc = [w \in Workers |-> "none"]
    /\ devs = [w \in Workers |-> <<>>]
    /\ gpc = "idle"
    /\ dthreads = 0
    /\ req = "none"
    /\ kaDead = FALSE
    /\ fail = "none"
    /\ discInLoop = FALSE

\* ------------------------------------------------------------- GUI thread
\* toggle_connection, line 1389: the command of connect_btn (a disabled button
\* runs no command) dispatches on is_connected.
ToggleConnection ==
    /\ gpc = "idle"
    /\ connect_btn = "normal"
    /\ IF is_connected
       THEN gpc' = "disc_flag" /\ req' = req
       ELSE gpc' = "conn_chk" /\ req' = IF req = "disconnect" THEN "reconnect" ELSE "connect"
    /\ UNCHANGED <<is_connected, should_disconnect, ble_thread_running, client, conn, sub,
                   wpc, devs, dthreads, kaDead,
                   storeVars, viewVars, fail, discInLoop>>

\* disconnect_device, line 1411.
DisconnectSetFlag ==
    /\ gpc = "disc_flag"
    /\ should_disconnect' = TRUE
    /\ gpc' = "disc_conn"
    /\ fail' = "none"
    /\ discInLoop' = WorkerAt(ScanConnectPcs)
    /\ UNCHANGED <<is_connected, ble_thread_running, client, conn, sub, wpc, devs,
                   dthreads, req, kaDead,
                   storeVars, viewVars>>

\* disconnect_device, lines 1412-1415.
DisconnectClearConnected ==
    /\ gpc = "disc_conn"
    /\ is_connected' = FALSE
    /\ connect_btn' = "normal"
    /\ req' = "disconnect"
    /\ gpc' = "disc_spawn"
    /\ UNCHANGED <<should_disconnect, ble_thread_running, client, conn, sub, wpc, devs,
                   dthreads, kaDead,
                   storeVars, displayVars, fail, discInLoop>>

\* disconnect_device, lines 1418-1438: if client, start a disconnect_client thread.
DisconnectSpawn ==
    /\ gpc = "disc_spawn"
    /\ dthreads' = IF client # NoClient THEN Min(dthreads + 1, MaxDiscThreads) ELSE dthreads
    /\ gpc' = "idle"
    /\ UNCHANGED <<is_connected, should_disconnect, ble_thread_running, client, conn, sub,
                   wpc, devs, req, kaDead,
                   storeVars, viewVars, fail, discInLoop>>

\* Variant of ConnectCheckRunning that does not look at ble_thread_running.
ConnectCheckRunning_Always ==
    /\ gpc = "conn_chk"
    /\ gpc' = "conn_flag"
    /\ UNCHANGED <<is_connected, should_disconnect, ble_thread_running, client, conn, sub,
                   wpc, devs, dthreads, req, kaDead,
                   storeVars, viewVars, fail, discInLoop>>

\* toggle_connection, line 1394.
ConnectCheckRunning ==
    /\ gpc = "conn_chk"
    /\ gpc' = IF ble_thread_running THEN "conn_manual" ELSE "conn_flag"
    /\ UNCHANGED <<is_connected, should_disconnect, ble_thread_running, client, conn, sub,
                   wpc, devs, dthreads, req, kaDead,
                   storeVars, viewVars, fail, discInLoop>>

\* toggle_connection, line 1396.
ConnectResetFlag ==
    /\ gpc = "conn_flag"
    /\ should_disconnect' = FALSE
    /\ gpc' = "conn_start"
    /\ UNCHANGED <<is_connected, ble_thread_running, client, conn, sub, wpc, devs,
                   dthreads, req, kaDead,
                   storeVars, viewVars, fail, discInLoop>>

\* toggle_connection, lines 1397-1398: threading.Thread(target=run_ble_loop).start().
ConnectStartThread ==
    /\ gpc = "conn_start"
    /\ \E w \in Workers :
          /\ wpc[w] \in {"none", "exit"}
          /\ \A v \in Workers : v < w => wpc[v] \notin {"none", "exit"}
          /\ wpc' = [wpc EXCEPT ![w] = "top"]
    /\ gpc' = "conn_run"
    /\ UNCHANGED <<is_connected, should_disconnect, ble_thread_running, client, conn, sub,
                   devs, dthreads, req, kaDead,
                   storeVars, viewVars, fail, discInLoop>>

\* toggle_connection, lines 1399 and 1404.
ConnectSetRunning ==
    /\ gpc = "conn_run"
    /\ ble_thread_running' = TRUE
    /\ connect_btn' = "disabled"
    /\ gpc' = "idle"
    /\ UNCHANGED <<is_connected, should_disconnect, client, conn, sub, wpc, devs,
                   dthreads, req, kaDead,
                   storeVars, displayVars, fail, discInLoop>>

\* toggle_connection, lines 1402 ("Manual connect requested") and 1404.
ConnectManual ==
    /\ gpc = "conn_manual"
    /\ should_disconnect' = FALSE
    /\ connect_btn' = "disabled"
    /\ gpc' = "idle"
    /\ UNCHANGED <<is_connected, ble_thread_running, client, conn, sub, wpc, devs,
                   dthreads, req, kaDead,
                   storeVars, displayVars, fail, discInLoop>>

\* disconnect_client, lines 1421-1435, on its own thread.
DisconnectClient ==
    /\ dthreads > 0
    /\ dthreads' = dthreads - 1
    /\ \E o \in DisconnectOutcomes(client) : conn' = o[1] /\ sub' = o[2]
    /\ UNCHANGED <<is_connected, should_disconnect, ble_thread_running, client, wpc, devs,
                   gpc, req, kaDead,
                   storeVars, viewVars, fail, discInLoop>>

\* ---------------------------------------------------------- worker thread
Goto(w, p) == wpc' = [wpc EXCEPT ![w] = p]

\* client is set and its transport link is up (client.is_connected).
ClientUp == client # NoClient /\ conn[client]

\* run_ble_loop, line 2593: "Reset disconnect flag for new connection attempts".
RunBleLoopTop(w) ==
    /\ wpc[w] = "top"
    /\ should_disconnect' = FALSE
    /\ Goto(w, "cleanup")
    /\ UNCHANGED <<is_connected, ble_thread_running, client, conn, sub, devs, gpc,
                   dthreads, req, kaDead, storeVars, viewVars, fail, discInLoop>>

\* The cleanup of a left-over client: run_ble_loop lines 2596-2607 and
\* scan_and_connect lines 2481-2489 (disconnect if connected; finally client = None,
\* is_connected = False).
CleanupClient ==
    IF client # NoClient
    THEN /\ \E o \in DisconnectOutcomes(client) : conn' = o[1] /\ sub' = o[2]
         /\ client' = NoClient
         /\ is_connected' = FALSE
    ELSE UNCHANGED <<conn, sub, client, is_connected>>

\* run_ble_loop, lines 2596-2607.
RunBleLoopCleanup(w) ==
    /\ wpc[w] = "cleanup"
    /\ CleanupClient
    /\ Goto(w, "sc_while")
    /\ UNCHANGED <<should_disconnect, ble_thread_running, devs, gpc, dthreads, req,
                   kaDead, storeVars, viewVars, fail, discInLoop>>

\* scan_and_connect, line 2478: while not should_disconnect.
ScanWhile(w) ==
    /\ wpc[w] = "sc_while"
    /\ Goto(w, IF should_disconnect THEN "sc_end" ELSE "sc_cleanup")
    /\ UNCHANGED <<is_connected, should_disconnect, ble_thread_running, client, conn, sub,
                   devs, gpc, dthreads, req, kaDead, storeVars, viewVars, fail, discInLoop>>

\* scan_and_connect, lines 2481-2489.
ScanCleanup(w) ==
    /\ wpc[w] = "sc_cleanup"
    /\ CleanupClient
    /\ Goto(w, "scan")
    /\ UNCHANGED <<should_disconnect, ble_thread_running, devs, gpc, dthreads, req,
                   kaDead, storeVars, viewVars, fail, discInLoop>>

\* pattern in name (Python's substring test on str).
Contains(name, pattern) ==
    \E i \in 1..(Len(name) - Len(pattern) + 1) :
        SubSeq(name, i, i + Len(pattern) - 1) = pattern

\* Variant of Matches that takes every device that has a name.
Matches_AnyName(name) == name # <<>>

\* scan_and_connect, line 2496: device.name and ("FarDriver" in device.name or
\* YUANQU_DEVICE_NAME in device.name).
Matches(name) ==
    name # <<>> /\ (Contains(name, FarDriver) \/ Contains(name, YUANQU_DEVICE_NAME))

\* scan_and_connect, line 2492: devices = await BleakScanner.discover().  A device
\* whose link is up does not advertise; the others may be in the result whatever
\* their names.  A scan error (line 2570) leaves the for
\* loop unentered, as an empty result does.
Discover(w) ==
    /\ wpc[w] = "scan"
    /\ \E S \in SUBSET {d \in Dev : ~conn[d]} : devs' = [devs EXCEPT ![w] = SetToSeq(S)]
    /\ Goto(w, "for")
    /\ fail' = "none"
    /\ UNCHANGED <<is_connected, should_disconnect, ble_thread_running, client, conn, sub,
                   gpc, dthreads, req, kaDead, storeVars, viewVars, discInLoop>>

\* scan_and_connect, lines 2494-2504: the next device of the scan result; one
\* whose name does not match is passed over, for one that matches
\* client = BleakClient(device.address).
ForDevice(w) ==
    /\ wpc[w] = "for"
    /\ IF devs[w] = <<>>
       THEN /\ Goto(w, "retry_chk")
            /\ UNCHANGED <<client, devs, kaDead>>
       ELSE IF ~Matches(device_name[Head(devs[w])])
       THEN /\ devs' = [devs EXCEPT ![w] = Tail(devs[w])]
            /\ UNCHANGED <<client, kaDead, wpc>>
       ELSE /\ client' = Head(devs[w])
            /\ devs' = [devs EXCEPT ![w] = Tail(devs[w])]
            /\ kaDead' = FALSE
            /\ Goto(w, "connect")
    /\ UNCHANGED <<is_connected, should_disconnect, ble_thread_running, conn, sub, gpc,
                   dthreads, req, storeVars, viewVars, fail, discInLoop>>

\* scan_and_connect, line 2507: the connect succeeds.
ConnectOk(w) ==
    /\ wpc[w] = "connect"
    /\ client # NoClient
    /\ conn' = [conn EXCEPT ![client] = TRUE]
    /\ Goto(w, "chk_conn")
    /\ UNCHANGED <<is_connected, should_disconnect, ble_thread_running, client, sub, devs,
                   gpc, dthreads, req, kaDead, storeVars, viewVars, fail, discInLoop>>

\* scan_and_connect, lines 2507 and 2563-2568: the connect times out or raises.
ConnectFailed(w) ==
    /\ wpc[w] = "connect"
    /\ is_connected' = FALSE
    /\ Goto(w, "for")
    /\ fail' = IF should_disconnect THEN fail ELSE "connect"
    /\ UNCHANGED <<should_disconnect, ble_thread_running, client, conn, sub, devs, gpc,
                   dthreads, req, kaDead, storeVars, viewVars, discInLoop>>

\* scan_and_connect, lines 2509-2510 and 2559-2561: if client.is_connected.
CheckConnected(w) ==
    /\ wpc[w] = "chk_conn"
    /\ IF ClientUp
       THEN is_connected' = TRUE /\ Goto(w, "settle")
       ELSE is_connected' = FALSE /\ Goto(w, "for")
    /\ fail' = IF ClientUp \/ should_disconnect THEN fail ELSE "connect"
    /\ UNCHANGED <<should_disconnect, ble_thread_running, client, conn, sub, devs, gpc,
                   dthreads, req, kaDead, storeVars, viewVars, discInLoop>>

\* scan_and_connect, line 2519: await asyncio.sleep(0.5).
Settle(w) ==
    /\ wpc[w] = "settle"
    /\ Goto(w, "subscribe")
    /\ UNCHANGED <<is_connected, should_disconnect, ble_thread_running, client, conn, sub,
                   devs, gpc, dthreads, req, kaDead, storeVars, viewVars, fail, discInLoop>>

\* scan_and_connect, line 2525: start_notify succeeds.
SubscribeOk(w) ==
    /\ wpc[w] = "subscribe"
    /\ ClientUp
    /\ sub' = [sub EXCEPT ![client] = TRUE]
    /\ Goto(w, "ka_while")
    /\ UNCHANGED <<is_connected, should_disconnect, ble_thread_running, client, conn, devs,
                   gpc, dthreads, req, kaDead, storeVars, viewVars, fail, discInLoop>>

\* scan_and_connect, lines 2525 and 2528: start_notify raises.
SubscribeRaises(w) ==
    /\ wpc[w] = "subscribe"
    /\ Goto(w, "sub_fail")
    /\ fail' = IF should_disconnect THEN fail ELSE "subscribe"
    /\ UNCHANGED <<is_connected, should_disconnect, ble_thread_running, client, conn, sub,
                   devs, gpc, dthreads, req, kaDead, storeVars, viewVars, discInLoop>>

\* Variant of SubscribeFailed that leaves is_connected as it is.
SubscribeFailed_KeepsFlag(w) ==
    /\ wpc[w] = "sub_fail"
    /\ \E o \in DisconnectOutcomes(client) : conn' = o[1] /\ sub' = o[2]
    /\ Goto(w, "for")
    /\ UNCHANGED <<is_connected, should_disconnect, ble_thread_running, client, devs, gpc,
                   dthreads, req, kaDead, storeVars, viewVars, fail, discInLoop>>

\* scan_and_connect, lines 2529-2536: disconnect, is_connected = False, continue.
SubscribeFailed(w) ==
    /\ wpc[w] = "sub_fail"
    /\ \E o \in DisconnectOutcomes(client) : conn' = o[1] /\ sub' = o[2]
    /\ is_connected' = FALSE
    /\ Goto(w, "for")
    /\ UNCHANGED <<should_disconnect, ble_thread_running, client, devs, gpc, dthreads,
                   req, kaDead, storeVars, viewVars, fail, discInLoop>>

\* Variant of KeepAliveWhile that enters the loop body whatever the flags say.
KeepAliveWhile_Always(w) ==
    /\ wpc[w] = "ka_while"
    /\ Goto(w, "ka_write")
    /\ UNCHANGED <<is_connected, should_disconnect, ble_thread_running, client, conn, sub,
                   devs, gpc, dthreads, req, kaDead, storeVars, viewVars, fail, discInLoop>>

\* scan_and_connect, line 2539: while is_connected and not should_disconnect.
KeepAliveWhile(w) ==
    /\ wpc[w] = "ka_while"
    /\ Goto(w, IF is_connected /\ ~should_disconnect THEN "ka_write" ELSE "after_ka")
    /\ UNCHANGED <<is_connected, should_disconnect, ble_thread_running, client, conn, sub,
                   devs, gpc, dthreads, req, kaDead, storeVars, viewVars, fail, discInLoop>>

\* scan_and_connect, line 2544: the keepalive write succeeds.
KeepAliveWriteOk(w) ==
    /\ wpc[w] = "ka_write"
    /\ ClientUp
    /\ Goto(w, "ka_sleep")
    /\ UNCHANGED <<is_connected, should_disconnect, ble_thread_running, client, conn, sub,
                   devs, gpc, dthreads, req, kaDead, storeVars, viewVars, fail, discInLoop>>

\* Variant of KeepAliveWriteFailed that swallows the error and stays in the loop.
KeepAliveWriteFailed_NoBreak(w) ==
    /\ wpc[w] = "ka_write"
    /\ kaDead' = TRUE
    /\ Goto(w, "ka_sleep")
    /\ fail' = IF should_disconnect THEN fail ELSE "keepalive"
    /\ UNCHANGED <<is_connected, should_disconnect, ble_thread_running, client, conn, sub,
                   devs, gpc, dthreads, req, storeVars, viewVars, discInLoop>>

\* scan_and_connect, lines 2544 and 2546-2554: the keepalive write raises;
\* is_connected = False, break.
KeepAliveWriteFailed(w) ==
    /\ wpc[w] = "ka_write"
    /\ is_connected' = FALSE
    /\ kaDead' = TRUE
    /\ Goto(w, "after_ka")
    /\ fail' = IF should_disconnect THEN fail ELSE "keepalive"
    /\ UNCHANGED <<should_disconnect, ble_thread_running, client, conn, sub, devs, gpc,
                   dthreads, req, storeVars, viewVars, discInLoop>>

\* scan_and_connect, line 2545: await asyncio.sleep(2).
KeepAliveSleep(w) ==
    /\ wpc[w] = "ka_sleep"
    /\ Goto(w, "ka_while")
    /\ UNCHANGED <<is_connected, should_disconnect, ble_thread_running, client, conn, sub,
                   devs, gpc, dthreads, req, kaDead, storeVars, viewVars, fail, discInLoop>>

\* scan_and_connect, lines 2557-2558: if should_disconnect: break (out of the for loop).
AfterKeepAlive(w) ==
    /\ wpc[w] = "after_ka"
    /\ Goto(w, IF should_disconnect THEN "retry_chk" ELSE "for")
    /\ UNCHANGED <<is_connected, should_disconnect, ble_thread_running, client, conn, sub,
                   devs, gpc, dthreads, req, kaDead, storeVars, viewVars, fail, discInLoop>>

\* scan_and_connect, lines 2574-2576: if should_disconnect: break.
RetryCheck(w) ==
    /\ wpc[w] = "retry_chk"
    /\ Goto(w, IF should_disconnect THEN "sc_end" ELSE "retry_sleep")
    /\ UNCHANGED <<is_connected, should_disconnect, ble_thread_running, client, conn, sub,
                   devs, gpc, dthreads, req, kaDead, storeVars, viewVars, fail, discInLoop>>

\* scan_and_connect, line 2579: await asyncio.sleep(5).
RetrySleep(w) ==
    /\ wpc[w] = "retry_sleep"
    /\ Goto(w, "sc_while")
    /\ UNCHANGED <<is_connected, should_disconnect, ble_thread_running, client, conn, sub,
                   devs, gpc, dthreads, req, kaDead, storeVars, viewVars, fail, discInLoop>>

\* scan_and_connect returns (lines 2582-2585); run_ble_loop lines 2613-2616.
ScanReturn(w) ==
    /\ wpc[w] = "sc_end"
    /\ Goto(w, "hold_chk")
    /\ UNCHANGED <<is_connected, should_disconnect, ble_thread_running, client, conn, sub,
                   devs, gpc, dthreads, req, kaDead, storeVars, viewVars, fail, discInLoop>>

\* Variant of HoldCheck that never waits for the user: the loop starts over.
HoldCheck_NeverParks(w) ==
    /\ wpc[w] = "hold_chk"
    /\ Goto(w, "top")
    /\ UNCHANGED <<is_connected, should_disconnect, ble_thread_running, client, conn, sub,
                   devs, gpc, dthreads, req, kaDead, storeVars, viewVars, fail, discInLoop>>

\* run_ble_loop, line 2619: if should_disconnect.
HoldCheck(w) ==
    /\ wpc[w] = "hold_chk"
    /\ Goto(w, IF should_disconnect THEN "parked" ELSE "top")
    /\ UNCHANGED <<is_connected, should_disconnect, ble_thread_running, client, conn, sub,
                   devs, gpc, dthreads, req, kaDead, storeVars, viewVars, fail, discInLoop>>

\* run_ble_loop, lines 2622-2623: while should_disconnect: time.sleep(0.5).  The
\* worker leaves the loop when it reads the flag as False.
Parked(w) ==
    /\ wpc[w] = "parked"
    /\ ~should_disconnect
    /\ Goto(w, "hold_recheck")
    /\ UNCHANGED <<is_connected, should_disconnect, ble_thread_running, client, conn, sub,
                   devs, gpc, dthreads, req, kaDead, storeVars, viewVars, fail, discInLoop>>

\* run_ble_loop, lines 2626-2629: if should_disconnect: ble_thread_running = False; break.
HoldRecheck(w) ==
    /\ wpc[w] = "hold_recheck"
    /\ IF should_disconnect
       THEN ble_thread_running' = FALSE /\ Goto(w, "exit")
       ELSE ble_thread_running' = ble_thread_running /\ Goto(w, "top")
    /\ UNCHANGED <<is_connected, should_disconnect, client, conn, sub, devs, gpc,
                   dthreads, req, kaDead, storeVars, viewVars, fail, discInLoop>>

Worker(w) ==
    \/ RunBleLoopTop(w) \/ RunBleLoopCleanup(w) \/ ScanWhile(w) \/ ScanCleanup(w)
    \/ Discover(w) \/ ForDevice(w) \/ ConnectOk(w) \/ ConnectFailed(w)
    \/ CheckConnected(w) \/ Settle(w) \/ SubscribeOk(w) \/ SubscribeRaises(w)
    \/ SubscribeFailed(w) \/ KeepAliveWhile(w) \/ KeepAliveWriteOk(w)
    \/ KeepAliveWriteFailed(w) \/ KeepAliveSleep(w) \/ AfterKeepAlive(w)
    \/ RetryCheck(w) \/ RetrySleep(w) \/ ScanReturn(w) \/ HoldCheck(w) \/ Parked(w)
    \/ HoldRecheck(w)

\* ------------------------------------------------------------- transport
\* The link of a connected client drops (out of range, device switched off).
LinkLoss(d) ==
    /\ conn[d]
    /\ conn' = [conn EXCEPT ![d] = FALSE]
    /\ sub' = [sub EXCEPT ![d] = FALSE]
    /\ UNCHANGED <<is_connected, should_disconnect, ble_thread_running, client, wpc, devs,
                   gpc, dthreads, req, kaDead, storeVars, viewVars, fail, discInLoop>>

\* ------------------------------------------------------- telemetry store
\* Units of the stored numbers: voltage in tenths of a volt (raw / 10.0), speed in
\* 1/4000 km/h (rpm / 4.0 * 1.350 * 0.06 = rpm * 81 / 4000), power as the signed
\* square of the milliwatts (power = -sqrt(iq^2 + id^2) / 100 * voltage / 10), so
\* that two stored numbers are equal, or ordered, exactly when the Python numbers are.
Keys == {"throttle", "gear", "rpm", "controller_temp", "motor_temp", "speed", "power",
         "voltage"}

\* ControllerData.__init__, lines 120-146.  last_update is kept as the seconds elapsed
\* since the time stored in it (time.time() - last_update); last_values[k] is <<>> while k is not a key
\* of _last_values.  csv_file is <<>> for None and <<n>> for an open file that n
\* rows have been written to (csv_writer is set and cleared together with it).
\* recording_start_time is 0 for None and otherwise the number of start_recording
\* calls that have succeeded, which orders the start times as the clock does.
ControllerDataInit ==
    [throttle |-> 0, gear |-> 0, rpm |-> 0, controller_temp |-> 0, motor_temp |-> 0,
     speed |-> 0, power |-> 0, voltage |-> 0, last_update |-> 0,
     last_values |-> [k \in Keys |-> <<>>], has_changes |-> FALSE,
     recording |-> FALSE, recorded_data |-> <<>>, csv_file |-> <<>>,
     recording_start_time |-> 0, packet_errors |-> 0,
     latency_samples |-> <<>>, avg_latency |-> <<0, 1>>]

\* The sum of the latencies of a window.
RECURSIVE SumSeq(_)
SumSeq(seq) == IF seq = <<>> THEN 0 ELSE Head(seq) + SumSeq(Tail(seq))

\* Variant of update_performance_metrics that drops the oldest sample as soon
\* as the window is full.
update_performance_metrics_PopsAtLimit(cd, latency) ==
    LET appended == Append(cd.latency_samples, latency)
        kept == IF Len(appended) >= latency_window THEN Tail(appended) ELSE appended
    IN  [cd EXCEPT !.latency_samples = kept,
                   !.avg_latency = <<SumSeq(kept), Len(kept)>>]

\* ControllerData.update_performance_metrics, lines 263-273.  avg_latency, the
\* quotient sum / len, is kept as the pair <<sum, len>>; packet_count and
\* last_packet_time, which nothing of the model reads, are not kept.
update_performance_metrics(cd, latency) ==
    LET appended == Append(cd.latency_samples, latency)
        kept == IF Len(appended) > latency_window THEN Tail(appended) ELSE appended
    IN  [cd EXCEPT !.latency_samples = kept,
                   !.avg_latency = <<SumSeq(kept), Len(kept)>>]

\* ControllerData.record_data_point, lines 233-261.  The timestamp of a sample is
\* kept as the start time of the recording it falls in.
record_data_point(cd) ==
    IF ~cd.recording THEN cd
    ELSE LET data_point ==
                 [timestamp |-> cd.recording_start_time,
                  throttle |-> cd.throttle, gear |-> cd.gear, rpm |-> cd.rpm,
                  controller_temp |-> cd.controller_temp, motor_temp |-> cd.motor_temp,
                  speed |-> cd.speed, power |-> cd.power, voltage |-> cd.voltage]
         IN  [cd EXCEPT !.recorded_data = Append(@, data_point),
                        !.csv_file = IF auto_save /\ @ # <<>> THEN <<@[1] + 1>> ELSE @]

\* Variant of update_value without the comparison with _last_values.
update_value_Always(cd, key, value) ==
    record_data_point([cd EXCEPT !.last_values[key] = <<value>>,
                                 !.has_changes = TRUE,
                                 ![key] = value,
                                 !.last_update = 0])

\* Variant of update_value that records the sample before it stores the value.
update_value_RecordsFirst(cd, key, value) ==
    IF cd.last_values[key] = <<>> \/ cd.last_values[key][1] # value
    THEN [record_data_point(cd) EXCEPT !.last_values[key] = <<value>>,
                                       !.has_changes = TRUE,
                                       ![key] = value,
                                       !.last_update = 0]
    ELSE cd

\* ControllerData.update_value, lines 148-158.
update_value(cd, key, value) ==
    IF cd.last_values[key] = <<>> \/ cd.last_values[key][1] # value
    THEN record_data_point([cd EXCEPT !.last_values[key] = <<value>>,
                                      !.has_changes = TRUE,
                                      ![key] = value,
                                      !.last_update = 0])
    ELSE cd

\* Variant of has_changes that leaves the flag set.
has_changes_KeepsFlag(cd) == [result |-> cd.has_changes, cd |-> cd]

\* ControllerData.has_changes, lines 160-164: the value returned and the store after.
has_changes(cd) ==
    [result |-> cd.has_changes, cd |-> [cd EXCEPT !.has_changes = FALSE]]

\* data[i] of the source (0-based).
B(data, i) == data[i + 1]
Word(hi, lo) == hi * 256 + lo
Max(a, b) == IF a > b THEN a ELSE b

\* Variant of Gear without the clamp to 1..3.
Gear_Unclamped(data) == (B(data, 2) \div 4) % 4

\* message_handler, lines 2420-2422.
Rpm(data) == Word(B(data, 4), B(data, 5))
Gear(data) == Max(1, Min(3, (B(data, 2) \div 4) % 4))

\* Variant of Power that reads iq and id as signed 16-bit values.
Power_SignedCurrents(data, voltage) ==
    LET s(v) == IF v >= 32768 THEN v - 65536 ELSE v
        iq == s(Word(B(data, 8), B(data, 9)))
        id == s(Word(B(data, 10), B(data, 11)))
        power == -((iq * iq + id * id) * (voltage * voltage))
    IN  IF iq < 0 \/ id < 0 THEN -power ELSE power

\* message_handler, lines 2425-2431: power = -is_mag * voltage, negated again when
\* iq < 0 or id < 0.
Power(data, voltage) ==
    LET iq == Word(B(data, 8), B(data, 9))
        id == Word(B(data, 10), B(data, 11))
        power == -((iq * iq + id * id) * (voltage * voltage))
    IN  IF iq < 0 \/ id < 0 THEN -power ELSE power

\* message_handler, lines 2434-2437.
Speed(rpm) == rpm * 81

\* Variant of ApplyFrame in which a voltage frame recomputes the power.
ApplyFrame_VoltageRecomputes(cd, data) ==
    LET index == B(data, 1) IN
    CASE index = 0 ->
           LET rpm == Rpm(data)
               gear == Gear(data)
               power == Power(data, cd.voltage)
               speed == Speed(rpm)
           IN  update_value(update_value(update_value(update_value(cd,
                   "rpm", rpm), "gear", gear), "power", power), "speed", speed)
      [] index = 1 ->
           update_value(update_value(cd, "voltage", Word(B(data, 2), B(data, 3))),
                        "power", Power(data, Word(B(data, 2), B(data, 3))))
      [] index = 4 -> update_value(cd, "controller_temp", B(data, 2))
      [] index = 13 ->
           update_value(update_value(cd, "motor_temp", B(data, 2)),
                        "throttle", Word(B(data, 4), B(data, 5)))
      [] OTHER -> cd

\* message_handler, lines 2419-2470: the field updates of an accepted frame.
ApplyFrame(cd, data) ==
    LET index == B(data, 1) IN
    CASE index = 0 ->
           LET rpm == Rpm(data)
               gear == Gear(data)
               power == Power(data, cd.voltage)
               speed == Speed(rpm)
           IN  update_value(update_value(update_value(update_value(cd,
                   "rpm", rpm), "gear", gear), "power", power), "speed", speed)
      [] index = 1 -> update_value(cd, "voltage", Word(B(data, 2), B(data, 3)))
      [] index = 4 -> update_value(cd, "controller_temp", B(data, 2))
      [] index = 13 ->
           update_value(update_value(cd, "motor_temp", B(data, 2)),
                        "throttle", Word(B(data, 4), B(data, 5)))
      [] OTHER -> cd

\* message_handler, lines 2387-2396: the frame is dropped.
Rejected(data) == Len(data) < 16 \/ B(data, 0) # 170

\* a ^ b for 0 <= a, b < 2^n.
RECURSIVE Xor(_, _, _)
Xor(a, b, n) ==
    IF n = 0 THEN 0
    ELSE IF a = 0 THEN b
    ELSE IF b = 0 THEN a
    ELSE ((a + b) % 2) + 2 * Xor(a \div 2, b \div 2, n - 1)

\* analyze_packet, lines 315-317: data[1] ^ ... ^ data[last].
RECURSIVE expected_checksum(_, _)
expected_checksum(data, last) ==
    IF last = 0 THEN 0 ELSE Xor(expected_checksum(data, last - 1), B(data, last), 8)

\* Variant of PacketInfo whose expected checksum includes the checksum byte.
PacketInfo_XorThrough14(data) ==
    [valid |-> TRUE, index |-> B(data, 1),
     checksum_valid |-> (B(data, 14) = expected_checksum(data, 14))]

\* analyze_packet, lines 320-330: the fields of packet_info the statistics read.
PacketInfo(data) ==
    [valid |-> TRUE, index |-> B(data, 1),
     checksum_valid |-> (B(data, 14) = expected_checksum(data, 13))]

\* Variant of analyze_packet that evicts the newest entry.
analyze_packet_DropsNewest(history, data) ==
    IF Len(data) < 16 \/ B(data, 0) # 170 THEN history
    ELSE LET appended == Append(history, PacketInfo(data))
         IN  IF Len(appended) > max_history
             THEN SubSeq(appended, 1, Len(appended) - 1) ELSE appended

\* PacketInspector.analyze_packet, lines 293-350: the history after the call.  A
\* short frame or one with a bad header is returned before it is stored.
\* Variant of analyze_packet that keeps a rejected frame in the history as an
\* entry that is not valid.
analyze_packet_StoresRejected(history, data) ==
    LET entry == IF Len(data) < 16 \/ B(data, 0) # 170
                 THEN [valid |-> FALSE] ELSE PacketInfo(data)
        appended == Append(history, entry)
    IN  IF Len(appended) > max_history THEN Tail(appended) ELSE appended

analyze_packet(history, data) ==
    IF Len(data) < 16 \/ B(data, 0) # 170 THEN history
    ELSE LET appended == Append(history, PacketInfo(data))
         IN  IF Len(appended) > max_history THEN Tail(appended) ELSE appended

\* PacketInspector.get_recent_packets, line 449: packet_history[-count:] for
\* count >= 0.  Python reads the slice start -0 as 0, and a start before the
\* first entry as the first entry.
get_recent_packets(history, count) ==
    IF history = <<>> THEN <<>>
    ELSE LET start == IF count = 0 THEN 0 ELSE Max(Len(history) - count, 0)
         IN  SubSeq(history, start + 1, Len(history))

\* PacketInspector.get_packet_statistics, lines 423-445.  The dict returned is a
\* function on its keys; error_rate is kept as the pair <<numerator, denominator>>
\* of the division, and index_distribution as a function on the indices counted.
get_packet_statistics(history) ==
    IF history = <<>> THEN [k \in {} |-> 0]
    ELSE LET valid_positions == {i \in DOMAIN history : history[i].valid}
             checksum_errors ==
                 Cardinality({i \in valid_positions : ~history[i].checksum_valid})
             total_packets == Len(history)
         IN  [total_packets |-> total_packets,
              valid_packets |-> Cardinality(valid_positions),
              checksum_errors |-> checksum_errors,
              index_distribution |->
                  [x \in {history[i].index : i \in valid_positions} |->
                      Cardinality({i \in valid_positions : history[i].index = x})],
              error_rate |-> IF total_packets > 0
                             THEN <<checksum_errors, total_packets>> ELSE <<0, 1>>]

\* message_handler, lines 2378-2470, run as one step of the worker's event loop.
\* Variant of message_handler that marks the session connected before it
\* checks the frame.
message_handler_ConnectsFirst(data) ==
    /\ packet_history' = analyze_packet(packet_history, data)
    /\ is_connected' = TRUE
    /\ IF Rejected(data)
       THEN ctr_data' = [ctr_data EXCEPT !.packet_errors = @ + 1]
       ELSE \E latency \in latencies :
               ctr_data' = ApplyFrame(update_performance_metrics(
                               [ctr_data EXCEPT !.last_update = 0], latency), data)

\* Variant of message_handler that applies a frame only when its checksum byte
\* is right.
message_handler_ChecksumGated(data) ==
    /\ packet_history' = analyze_packet(packet_history, data)
    /\ IF Rejected(data)
       THEN /\ ctr_data' = [ctr_data EXCEPT !.packet_errors = @ + 1]
            /\ UNCHANGED is_connected
       ELSE /\ is_connected' = TRUE
            /\ \E latency \in latencies :
                  LET cd == update_performance_metrics(
                                [ctr_data EXCEPT !.last_update = 0], latency)
                  IN  ctr_data' = IF PacketInfo(data).checksum_valid
                                  THEN ApplyFrame(cd, data) ELSE cd

\* Of the performance counters it keeps, packet_errors and the latency samples
\* are part of the model; packet_count is not.
message_handler(data) ==
    /\ packet_history' = analyze_packet(packet_history, data)
    /\ IF Rejected(data)
       THEN /\ ctr_data' = [ctr_data EXCEPT !.packet_errors = @ + 1]
            /\ UNCHANGED is_connected
       ELSE /\ is_connected' = TRUE
            /\ \E latency \in latencies :
                  ctr_data' = ApplyFrame(update_performance_metrics(
                                  [ctr_data EXCEPT !.last_update = 0], latency), data)

\* A frame of 16 bytes: header, type index, payload bytes 2-5, 9 and 11.
MkFrame(h, idx, b2, b3, b4, b5, b9, b11) ==
    <<h, idx, b2, b3, b4, b5, 0, 0, 0, b9, 0, b11, 0, 0, 0, 0>>

\* A frame that carries no telemetry: an unknown type index.
SessionFrames == {MkFrame(170, 5, 0, 0, 0, 0, 0, 0)}

\* Main data (gear bits 2, rpm 5000, iq 0.03 A, id 0.04 A; and all zero), voltage
\* (90.0 V and 80.0 V), controller temperature, motor temperature and throttle,
\* a short frame, a frame with a bad header, and the frame above.
StoreFrames ==
    { MkFrame(170, 0, 8, 0, 19, 136, 3, 4),
      MkFrame(170, 0, 0, 0, 0, 0, 0, 0),
      MkFrame(170, 1, 3, 132, 0, 0, 0, 0),
      MkFrame(170, 1, 3, 32, 0, 0, 0, 0),
      MkFrame(170, 4, 40, 0, 0, 0, 0, 0),
      MkFrame(170, 13, 50, 0, 15, 255, 0, 0),
      <<170, 0, 8>>,
      MkFrame(85, 0, 0, 0, 0, 0, 0, 0) } \cup SessionFrames

\* The transport hands a frame to the notification callback.
CanNotify == WorkerAt(AwaitPcs) /\ \E d \in Dev : conn[d] /\ sub[d]

Notification(frames) ==
    /\ CanNotify
    /\ \E data \in frames :
          /\ Rejected(data) => ctr_data.packet_errors < MaxErrors
          /\ message_handler(data)
    /\ UNCHANGED <<should_disconnect, ble_thread_running, client, conn, sub, wpc, devs,
                   gpc, dthreads, req, kaDead, fail, discInLoop, viewVars, fixedVars,
                   stepVars, auto_save>>

\* TickSeconds seconds pass.
Tick ==
    /\ ctr_data.last_update < MaxTicks * TickSeconds
    /\ ctr_data' = [ctr_data EXCEPT !.last_update = @ + TickSeconds]
    /\ UNCHANGED <<sessionVars, viewVars, packet_history, fixedVars, stepVars, auto_save>>

\* --------------------------------------------------------------- recorder
\* What the file system does when start_recording asks for the CSV file: the file
\* is opened; os.makedirs("data") raises; open() raises.
SinkOutcomes == {"ok", "makedirs_raises", "open_raises"}

\* Variant of start_recording without the check of self.recording.
start_recording_Restarts(cd, sink) ==
    [result |-> "True",
     cd |-> [cd EXCEPT !.recording = TRUE,
                       !.recording_start_time = @ + 1,
                       !.recorded_data = <<>>]]

\* Variant of start_recording that keeps the samples of the recording before.
start_recording_KeepsData(cd, sink) ==
    IF cd.recording THEN [result |-> "False", cd |-> cd]
    ELSE [result |-> "True",
          cd |-> [cd EXCEPT !.recording = TRUE, !.recording_start_time = @ + 1]]

\* ControllerData.start_recording, lines 166-212: what the call returns ("True",
\* "False", or "raises" for an exception that leaves it) and the store after.  The
\* header is the first row of the file.
start_recording(cd, sink) ==
    IF cd.recording THEN [result |-> "False", cd |-> cd]
    ELSE IF ~auto_save
    THEN [result |-> "True",
          cd |-> [cd EXCEPT !.recording = TRUE,
                            !.recording_start_time = @ + 1,
                            !.recorded_data = <<>>]]
    ELSE CASE sink = "makedirs_raises" -> [result |-> "raises", cd |-> cd]
           [] sink = "open_raises" -> [result |-> "False", cd |-> cd]
           [] OTHER ->
                [result |-> "True",
                 cd |-> [cd EXCEPT !.csv_file = <<1>>,
                                   !.recording = TRUE,
                                   !.recording_start_time = @ + 1,
                                   !.recorded_data = <<>>]]

\* ControllerData.stop_recording, lines 214-231.
stop_recording(cd) ==
    IF ~cd.recording THEN cd
    ELSE [cd EXCEPT !.recording = FALSE, !.csv_file = <<>>]

\* toggle_recording, lines 1664-1682, a callback of the GUI thread.
ToggleRecording ==
    /\ gpc = "idle"
    /\ IF ctr_data.recording
       THEN ctr_data' = stop_recording(ctr_data)
       ELSE /\ ctr_data.recording_start_time < MaxSessions
            /\ \E sink \in SinkOutcomes : ctr_data' = start_recording(ctr_data, sink).cd
    /\ UNCHANGED <<sessionVars, viewVars, packet_history, fixedVars, stepVars, auto_save>>

\* save_settings, line 2344: the auto-save checkbox is stored.
SaveSettings ==
    /\ gpc = "idle"
    /\ \E checked \in BOOLEAN : auto_save' = checked
    /\ UNCHANGED <<sessionVars, viewVars, ctr_data, packet_history, fixedVars, stepVars>>

\* ------------------------------------------------------ GUI timer callback
\* toggle_pause, lines 1450-1453; a callback of the GUI thread.
TogglePause ==
    /\ gpc = "idle"
    /\ terminal_paused' = ~terminal_paused
    /\ UNCHANGED <<sessionVars, storeVars, last_connection_state, connect_btn>>

\* Variant of ResetData that leaves the voltage as it is.
ResetData_KeepsVoltage(cd) ==
    [cd EXCEPT !.throttle = 0, !.gear = 0, !.rpm = 0, !.controller_temp = 0,
               !.motor_temp = 0, !.speed = 0, !.power = 0]

\* update_display, lines 2028-2040: the value of data_changed when the displays
\* are updated, changed being what has_changes() returned.
data_changed(changed) == IF ~is_connected THEN TRUE ELSE changed

\* update_display, lines 2030-2039.
ResetData(cd) ==
    [cd EXCEPT !.throttle = 0, !.gear = 0, !.rpm = 0, !.controller_temp = 0,
               !.motor_temp = 0, !.speed = 0, !.power = 0, !.voltage = 0]

\* Variant of ActualConnected that asks for recent data as well as the flag.
ActualConnected_Both(cd) == is_connected /\ cd.last_update < StaleAfter

\* update_connection_buttons line 1362-1363 and update_display lines 2078-2079.
ActualConnected(cd) == is_connected \/ cd.last_update < StaleAfter

\* update_display, lines 2077-2088.
InfoLabel(cd) ==
    IF ActualConnected(cd)
    THEN IF cd.last_update < StaleAfter THEN "connected_recent" ELSE "connected_stale"
    ELSE "ready"

\* update_connection_buttons, lines 1360-1375.
update_connection_buttons(cd) ==
    /\ last_connection_state' = ActualConnected(cd)
    /\ connect_btn' = IF last_connection_state # ActualConnected(cd)
                      THEN "normal" ELSE connect_btn

\* update_display, lines 2010-2091, a timer callback of the GUI thread.  The
\* widgets it configures are not part of the state: after it the info panel
\* shows InfoLabel(ctr_data).  update_connection_buttons runs (elapsed) only when
\* half a second has passed since it last ran.
UpdateDisplay ==
    /\ gpc = "idle"
    /\ IF terminal_paused
       THEN UNCHANGED <<ctr_data, last_connection_state, connect_btn>>
       ELSE LET hc == has_changes(ctr_data)
                cd == IF ~is_connected THEN ResetData(hc.cd) ELSE hc.cd
            IN  /\ ctr_data' = cd
                /\ \E elapsed \in BOOLEAN :
                      IF elapsed
                      THEN update_connection_buttons(cd)
                      ELSE UNCHANGED <<last_connection_state, connect_btn>>
    /\ UNCHANGED <<sessionVars, terminal_paused, packet_history, fixedVars, stepVars,
                   auto_save>>

\* What message_handler measures in the specifications that are not about the
\* latency: its run takes less than the clock can tell.
SessionLatencies == {0}

\* The names of the devices in the specifications that are not about the name
\* filter: every device is of one of the two families.
SessionNames == [d \in Dev |-> IF d = 1 THEN FarDriver ELSE YUANQU_DEVICE_NAME]

\* update_display between two of its runs: nothing read, nothing shown.
DisplayIdle == [pc |-> "idle", changed |-> FALSE, shown |-> <<>>]

\* ------------------------------------------- the two threads, step by step
\* message_handler runs on the worker thread and update_display on the GUI
\* thread; no lock guards ctr_data, so the interpreter may switch between the
\* threads between any two statements.  Below, message_handler is cut at its
\* update_value calls and update_display at the two statements of has_changes
\* and at each widget it configures.

\* message_handler, lines 2419-2464: the update_value calls of an accepted
\* frame, in the order of the source.  power is computed (lines 2425-2431)
\* from the voltage of the store before the first of them.
FieldUpdates(cd, data) ==
    LET index == B(data, 1) IN
    CASE index = 0 -> << <<"rpm", Rpm(data)>>, <<"gear", Gear(data)>>,
                         <<"power", Power(data, cd.voltage)>>,
                         <<"speed", Speed(Rpm(data))>> >>
      [] index = 1 -> << <<"voltage", Word(B(data, 2), B(data, 3))>> >>
      [] index = 4 -> << <<"controller_temp", B(data, 2)>> >>
      [] index = 13 -> << <<"motor_temp", B(data, 2)>>,
                          <<"throttle", Word(B(data, 4), B(data, 5))>> >>
      [] OTHER -> <<>>

\* message_handler, lines 2378-2437: a notification arrives (the event loop
\* runs one callback at a time); the packet is analyzed and checked, the
\* session marked connected, the values decoded.
HandlerStart(frames) ==
    /\ CanNotify
    /\ handler = <<>>
    /\ \E data \in frames :
          /\ Rejected(data) => ctr_data.packet_errors < MaxErrors
          /\ packet_history' = analyze_packet(packet_history, data)
          /\ IF Rejected(data)
             THEN /\ ctr_data' = [ctr_data EXCEPT !.packet_errors = @ + 1]
                  /\ UNCHANGED <<is_connected, handler>>
             ELSE /\ is_connected' = TRUE
                  /\ \E latency \in latencies :
                        ctr_data' = update_performance_metrics(
                                        [ctr_data EXCEPT !.last_update = 0], latency)
                  /\ handler' = FieldUpdates(ctr_data, data)
    /\ UNCHANGED <<should_disconnect, ble_thread_running, client, conn, sub, wpc, devs,
                   gpc, dthreads, req, kaDead, fail, discInLoop, viewVars, fixedVars,
                   display, auto_save>>

\* message_handler, lines 2440-2464: the next update_value call.
HandlerUpdate ==
    /\ handler # <<>>
    /\ ctr_data' = update_value(ctr_data, handler[1][1], handler[1][2])
    /\ handler' = Tail(handler)
    /\ UNCHANGED <<sessionVars, viewVars, packet_history, fixedVars, display, auto_save>>

\* update_display line 2028 and has_changes line 162: changed = self._has_changes.
DisplayReadFlag ==
    /\ gpc = "idle"
    /\ display.pc = "idle"
    /\ ~terminal_paused
    /\ display' = [pc |-> "clear", changed |-> ctr_data.has_changes, shown |-> <<>>]
    /\ UNCHANGED <<sessionVars, viewVars, ctr_data, packet_history, fixedVars, handler,
                   auto_save>>

\* has_changes lines 163-164 and update_display lines 2031-2042: the flag is
\* cleared, the store reset when not connected, and the widgets are configured
\* only if data_changed.
DisplayClearFlag ==
    /\ display.pc = "clear"
    /\ LET cleared == [ctr_data EXCEPT !.has_changes = FALSE]
       IN  ctr_data' = IF ~is_connected THEN ResetData(cleared) ELSE cleared
    /\ display' = [display EXCEPT
                      !.pc = IF data_changed(display.changed) THEN "show" ELSE "idle"]
    /\ UNCHANGED <<sessionVars, viewVars, packet_history, fixedVars, handler, auto_save>>

\* update_display, lines 2045, 2048, 2057 and 2067: the fields the power gauge,
\* the speed display, the rpm gauge and the gear label read, in that order.
ShownKeys == <<"power", "speed", "rpm", "gear">>

\* update_display, lines 2043-2067: the next of these widgets reads its field.
DisplayShow ==
    /\ display.pc = "show"
    /\ LET key == ShownKeys[Len(display.shown) + 1]
       IN  display' = [display EXCEPT
                         !.shown = Append(@, ctr_data[key]),
                         !.pc = IF Len(display.shown) + 1 = Len(ShownKeys)
                                THEN "idle" ELSE "show"]
    /\ UNCHANGED <<sessionVars, viewVars, ctr_data, packet_history, fixedVars, handler,
                   auto_save>>

\* ---------------------------------------------------------- specifications
\* The state after FarDriverMonitor.__init__, whose first update_display has run.
InitStore ==
    /\ ctr_data = ControllerDataInit
    /\ packet_history = <<>>
    /\ max_history = SessionHistoryCapacity
    /\ latency_window = SessionLatencyWindow
    /\ latencies = SessionLatencies
    /\ device_name = SessionNames
    /\ auto_save = TRUE
    /\ handler = <<>>
    /\ display = DisplayIdle
    /\ terminal_paused = FALSE
    /\ last_connection_state = TRUE
    /\ connect_btn = "normal"

FullInit == Init /\ InitStore

Gui ==
    \/ ToggleConnection \/ DisconnectSetFlag \/ DisconnectClearConnected
    \/ DisconnectSpawn \/ ConnectCheckRunning \/ ConnectResetFlag
    \/ ConnectStartThread \/ ConnectSetRunning \/ ConnectManual

\* The connection session: the GUI's connect button, the worker, the transport.
Next ==
    \/ Gui
    \/ DisconnectClient
    \/ \E w \in Workers : Worker(w)
    \/ \E d \in Dev : LinkLoss(d)
    \/ Notification(SessionFrames)
    \/ UpdateDisplay
    \/ Tick

Spec == FullInit /\ [][Next]_vars

\* Every started thread keeps running, and a GUI callback runs to its end; the
\* user, the transport's failures and its frames are under no obligation.
GuiRuns ==
    \/ DisconnectSetFlag \/ DisconnectClearConnected \/ DisconnectSpawn
    \/ ConnectCheckRunning \/ ConnectResetFlag \/ ConnectStartThread
    \/ ConnectSetRunning \/ ConnectManual

FairSpec ==
    /\ Spec
    /\ \A w \in Workers : WF_vars(Worker(w))
    /\ WF_vars(DisconnectClient)
    /\ WF_vars(GuiRuns)

\* The telemetry store and the display during a session that is Active on device 1
\* (the worker sleeps in the keepalive loop; no frame has arrived yet).
ActiveState ==
    /\ is_connected = TRUE
    /\ should_disconnect = FALSE
    /\ ble_thread_running = TRUE
    /\ client = 1
    /\ conn = [d \in Dev |-> d = 1]
    /\ sub = [d \in Dev |-> d = 1]
    /\ wpc = [w \in Workers |-> IF w = 1 THEN "ka_sleep" ELSE "none"]
    /\ devs = [w \in Workers |-> <<>>]
    /\ gpc = "idle"
    /\ dthreads = 0
    /\ req = "connect"
    /\ kaDead = FALSE
    /\ fail = "none"
    /\ discInLoop = FALSE

StoreInit == ActiveState /\ InitStore

StoreNext ==
    \/ Notification(StoreFrames)
    \/ UpdateDisplay
    \/ ToggleConnection \/ DisconnectSetFlag \/ DisconnectClearConnected
    \/ DisconnectSpawn \/ ConnectCheckRunning \/ ConnectManual
    \/ DisconnectClient

StoreSpec == StoreInit /\ [][StoreNext]_vars

\* The display of the same session as time passes; the frames carry no telemetry.
DisplayNext ==
    \/ Notification(SessionFrames)
    \/ UpdateDisplay
    \/ TogglePause
    \/ Tick
    \/ ToggleConnection \/ DisconnectSetFlag \/ DisconnectClearConnected
    \/ DisconnectSpawn \/ ConnectCheckRunning \/ ConnectManual
    \/ DisconnectClient

DisplaySpec == StoreInit /\ [][DisplayNext]_vars

\* The packet history of the same session, with room for HistoryCapacity entries.
HistoryInit ==
    /\ ActiveState
    /\ ctr_data = ControllerDataInit
    /\ packet_history = <<>>
    /\ max_history = HistoryCapacity
    /\ latency_window = SessionLatencyWindow
    /\ latencies = SessionLatencies
    /\ device_name = SessionNames
    /\ auto_save = TRUE
    /\ handler = <<>>
    /\ display = DisplayIdle
    /\ terminal_paused = FALSE
    /\ last_connection_state = TRUE
    /\ connect_btn = "normal"

HistoryNext == Notification(StoreFrames)

HistorySpec == HistoryInit /\ [][HistoryNext]_vars

\* Main data (rpm 5000; all zero), voltage 90.0 V, and a frame with a bad header.
RecorderFrames ==
    { MkFrame(170, 0, 8, 0, 19, 136, 3, 4),
      MkFrame(170, 0, 0, 0, 0, 0, 0, 0),
      MkFrame(170, 1, 3, 132, 0, 0, 0, 0),
      MkFrame(85, 0, 0, 0, 0, 0, 0, 0) }

\* The recorder during the same session: frames arrive, the user starts and stops
\* recordings and changes the auto-save setting.
RecorderNext ==
    \/ (Len(ctr_data.recorded_data) + 4 <= MaxSamples /\ Notification(RecorderFrames))
    \/ ToggleRecording
    \/ SaveSettings
    \/ UpdateDisplay

RecorderSpec == StoreInit /\ [][RecorderNext]_vars

\* Frames for the decoder.  Byte 14 equals the XOR of bytes 1 to 13 in: main data
\* (rpm 5000, XOR 148), voltage 90.0 V (XOR 134), unknown type 5 (XOR 5); it
\* differs from it in: main data (rpm 5000), controller temperature, motor
\* temperature and throttle.  Then a frame of 17 bytes (voltage 80.0 V), one of
\* 15 bytes, and one of 16 bytes with a bad header.
DecodeFrames ==
    { [MkFrame(170, 0, 8, 0, 19, 136, 3, 4) EXCEPT ![15] = 148],
      [MkFrame(170, 1, 3, 132, 0, 0, 0, 0) EXCEPT ![15] = 134],
      [MkFrame(170, 5, 0, 0, 0, 0, 0, 0) EXCEPT ![15] = 5],
      MkFrame(170, 0, 8, 0, 19, 136, 3, 4),
      MkFrame(170, 4, 40, 0, 0, 0, 0, 0),
      MkFrame(170, 13, 50, 0, 15, 255, 0, 0),
      Append(MkFrame(170, 1, 3, 32, 0, 0, 0, 0), 0),
      SubSeq(MkFrame(170, 1, 3, 32, 0, 0, 0, 0), 1, 15),
      MkFrame(85, 0, 0, 0, 0, 0, 0, 0) }

\* The decoder during the same session, with room for HistoryCapacity entries in
\* the packet history: frames arrive while the user starts and stops a recording.
DecodeNext ==
    \/ (Len(ctr_data.recorded_data) + 4 <= DecodeSamples /\ Notification(DecodeFrames))
    \/ ToggleRecording

DecodeSpec == HistoryInit /\ [][DecodeNext]_vars

\* The frames of DecodeFrames that message_handler drops, and one it accepts
\* (main data, rpm 5000).
DropFrames ==
    {data \in DecodeFrames : Rejected(data)} \cup {MkFrame(170, 0, 8, 0, 19, 136, 3, 4)}

\* The same session while the user also presses the connect button: frames,
\* dropped ones among them, arrive before and after is_connected is cleared.
DropNext ==
    \/ (Len(ctr_data.recorded_data) + 4 <= DecodeSamples /\ Notification(DropFrames))
    \/ ToggleRecording
    \/ ToggleConnection \/ DisconnectSetFlag \/ DisconnectClearConnected
    \/ DisconnectSpawn \/ ConnectCheckRunning \/ ConnectManual
    \/ DisconnectClient

DropSpec == HistoryInit /\ [][DropNext]_vars

\* Main data (rpm 5000; all zero) and voltage 90.0 V.
RaceFrames ==
    { MkFrame(170, 0, 8, 0, 19, 136, 3, 4),
      MkFrame(170, 0, 0, 0, 0, 0, 0, 0),
      MkFrame(170, 1, 3, 132, 0, 0, 0, 0) }

\* The worker thread and the GUI thread of the same session, step by step.
RaceNext ==
    \/ HandlerStart(RaceFrames)
    \/ HandlerUpdate
    \/ DisplayReadFlag
    \/ DisplayClearFlag
    \/ DisplayShow

RaceSpec == StoreInit /\ [][RaceNext]_vars

\* The worker thread step by step while the user starts and stops recordings,
\* with room for HistoryCapacity entries in the packet history.
OrderNext ==
    \/ (Len(ctr_data.recorded_data) + 4 <= MaxSamples /\ HandlerStart(RecorderFrames))
    \/ HandlerUpdate
    \/ ToggleRecording

OrderSpec == HistoryInit /\ [][OrderNext]_vars

\* The callbacks of the GUI thread run to their end, and the display timer fires
\* again and again (root.after(16, update_display)), so that update_display runs
\* whenever the GUI thread is idle often enough; the user and the transport are
\* under no obligation.
PollNext == StoreNext \/ TogglePause

PollRuns ==
    \/ DisconnectSetFlag \/ DisconnectClearConnected \/ DisconnectSpawn
    \/ ConnectCheckRunning \/ ConnectManual

PollSpec ==
    /\ StoreInit /\ [][PollNext]_vars
    /\ SF_vars(UpdateDisplay)
    /\ WF_vars(PollRuns)
    /\ WF_vars(DisconnectClient)

\* ------------------------------------------------------------------ claims
Parked1 == WorkerAt({"parked"})

\* C1: from the moment disconnect_device has cleared the connected flag until the
\* next connect request, is_connected stays false.
C1_DisconnectedStaysFalse == (req = "disconnect") => ~is_connected

\* A worker step that begins a scan pass, a transport connect or a subscription.
StartsWork ==
    \E w \in Workers : wpc'[w] # wpc[w] /\ wpc'[w] \in {"sc_cleanup", "connect", "subscribe"}

\* C2: after a Disconnect() and before the next Connect() the worker starts no new
\* scan, transport connect or subscription, and whenever it is parked in the wait
\* loop of run_ble_loop the transport client is disconnected.
C2_RetriesHalted ==
    [][ /\ (req = "disconnect" /\ req' = "disconnect") => ~StartsWork
        /\ (req' = "disconnect" /\ Parked1') => ~ClientUp' ]_vars

\* C3: a Disconnect() made while the worker is inside scan_and_connect (scanning,
\* retry sleep, connecting, subscribing, keepalive loop) is never lost; with no
\* Connect() after it the worker reaches the parked wait of run_ble_loop and
\* stays there.
C3_DisconnectParks ==
    /\ []((req = "disconnect" /\ discInLoop) => should_disconnect)
    /\ ((req = "disconnect" /\ discInLoop) ~> (Parked1 \/ req # "disconnect"))
    /\ [][(Parked1 /\ req = "disconnect" /\ discInLoop /\ req' = "disconnect")
            => Parked1']_vars

C3_Witness == req = "disconnect" /\ discInLoop /\ Parked1

\* The worker is in the keepalive loop of a session whose flags say connected.
StillActive == WorkerAt({"ka_write", "ka_sleep"}) /\ is_connected /\ ~should_disconnect

\* C4: a Disconnect() followed by a Connect() (whatever the worker was doing, and
\* with no further request) does not leave the worker parked or stopped: under
\* fair scheduling it eventually scans again, unless it never left the keepalive
\* loop of the session (the Connect() came before it had seen the flag).
C4_ReconnectLeavesHold ==
    (req = "reconnect") ~> (WorkerAt({"scan"}) \/ StillActive \/ req # "reconnect")

\* A step of the worker that handles a failed connect or a failed subscription.
ConnectOrSubscribeFails ==
    \E w \in Workers :
        \/ (wpc[w] = "connect" /\ wpc'[w] = "for")
        \/ (wpc[w] = "chk_conn" /\ wpc'[w] = "for")
        \/ (wpc[w] = "sub_fail" /\ wpc'[w] = "for")

\* C5 as stated: a failed connect or subscription leaves is_connected false and
\* the worker alive inside scan_and_connect, and (no Disconnect() requested) the
\* worker eventually scans again.
C5_FailureRetried ==
    /\ [][ConnectOrSubscribeFails => (~is_connected' /\ WorkerAt(ScanConnectPcs)')]_vars
    /\ ((fail \in {"connect", "subscribe"}) ~> (fail = "none"))

\* C5 amended: a failed connect or subscription leaves is_connected false and
\* the worker alive inside scan_and_connect, and (no Disconnect() requested) the
\* worker eventually scans again, or it is in the keepalive loop of a connection
\* made to a later matching device of the same scan.
C5_FailureRetriedOrActive ==
    /\ [][ConnectOrSubscribeFails => (~is_connected' /\ WorkerAt(ScanConnectPcs)')]_vars
    /\ ((fail \in {"connect", "subscribe"})
          ~> (fail = "none" \/ WorkerAt({"ka_sleep"})))

C5_Witness == fail \in {"connect", "subscribe"} /\ ~should_disconnect /\ WorkerAt({"retry_sleep"})

\* A step of the worker that writes a keepalive (successfully or not).
WritesKeepAlive == \E w \in Workers : wpc[w] = "ka_write" /\ wpc'[w] # "ka_write"
KeepAliveFails == \E w \in Workers : wpc[w] = "ka_write" /\ wpc'[w] = "after_ka"

\* C6 as stated: a failed keepalive write clears is_connected, no further keepalive
\* is written on that client, and (no Disconnect() requested) the worker
\* eventually scans again.
C6_KeepAliveLoss ==
    /\ [][(KeepAliveFails => ~is_connected') /\ (WritesKeepAlive => ~kaDead)]_vars
    /\ ((fail = "keepalive") ~> (fail = "none"))

\* C6 amended: a failed keepalive write clears is_connected, no further keepalive
\* is written on that client, and (no Disconnect() requested) the worker
\* eventually scans again, or it is in the keepalive loop of a connection made to
\* a later matching device of the same scan.
C6_KeepAliveLossOrActive ==
    /\ [][(KeepAliveFails => ~is_connected') /\ (WritesKeepAlive => ~kaDead)]_vars
    /\ ((fail = "keepalive")
          ~> (fail = "none" \/ (WorkerAt({"ka_sleep"}) /\ ~kaDead)))

C6_Witness == fail = "keepalive" /\ kaDead /\ ~is_connected /\ WorkerAt({"retry_sleep"})

\* A step of the GUI thread inside the connect branch of toggle_connection.
ConnectStep ==
    \/ (gpc = "idle" /\ gpc' = "conn_chk")
    \/ (gpc \in {"conn_chk", "conn_flag", "conn_start", "conn_run", "conn_manual"}
        /\ gpc' # gpc)

\* C7 as stated: at most one worker is live, and a Connect() made while a worker
\* is inside scan_and_connect starts no worker and leaves is_connected,
\* should_disconnect and client unchanged.
C7_ConnectIsNoOp ==
    [][ /\ Cardinality(LiveWorkers') <= 1
        /\ (ConnectStep /\ WorkerAt(ScanConnectPcs))
             => UNCHANGED <<wpc, is_connected, should_disconnect, client>> ]_vars

\* C7 amended: at most one worker is live, and a Connect() made while a worker
\* is inside scan_and_connect starts no worker and leaves is_connected and client
\* unchanged; should_disconnect is left as it is unless a Disconnect() is
\* pending, which the Connect() cancels.
C7_ConnectKeepsSession ==
    [][ /\ Cardinality(LiveWorkers') <= 1
        /\ (ConnectStep /\ WorkerAt(ScanConnectPcs))
             => /\ UNCHANGED <<wpc, is_connected, client>>
                /\ (should_disconnect' = should_disconnect
                      \/ (should_disconnect /\ ~should_disconnect')) ]_vars

C7_Witness == gpc = "conn_manual" /\ WorkerAt({"scan", "connect", "ka_sleep"}) /\ ~should_disconnect

\* The session is Active (connected flag set, worker in the keepalive loop) and
\* the last update is StaleAfter seconds old or older.
ActiveStale ==
    /\ is_connected
    /\ WorkerAt({"ka_while", "ka_write", "ka_sleep"})
    /\ ctr_data.last_update >= StaleAfter

\* C8 as stated: while the session is Active and no frame has arrived for 5 s, the
\* connection state the display derives from the connected flag and the time of
\* the last update is false, and that is what update_connection_buttons stores.
C8_StaleShowsDisconnected ==
    /\ [](ActiveStale => ~ActualConnected(ctr_data))
    /\ [][(ActiveStale /\ last_connection_state' # last_connection_state)
            => ~last_connection_state']_vars

\* C8 amended: in that situation the derived connection state is still true (the
\* connected flag alone decides), update_connection_buttons stores true, and the
\* info panel reads "Connected - No recent data".
C8_StaleShowsNoRecentData ==
    /\ [](ActiveStale => (ActualConnected(ctr_data) /\ InfoLabel(ctr_data) = "connected_stale"))
    /\ [][(ActiveStale /\ last_connection_state' # last_connection_state)
            => last_connection_state']_vars

\* Active and stale, and update_display has run update_connection_buttons since.
C8_Witness == ActiveStale /\ last_connection_state /\ ~terminal_paused /\ gpc = "idle"

\* The snapshot fields a frame of type 0, 1, 4 or 13 carries hold its decoded values.
ShowsFrame(cd, data) ==
    LET index == B(data, 1) IN
    CASE index = 0 -> cd.rpm = Rpm(data) /\ cd.gear = Gear(data)
      [] index = 1 -> cd.voltage = Word(B(data, 2), B(data, 3))
      [] index = 4 -> cd.controller_temp = B(data, 2)
      [] index = 13 -> cd.motor_temp = B(data, 2) /\ cd.throttle = Word(B(data, 4), B(data, 5))
      [] OTHER -> TRUE

\* C9: right after message_handler has applied an accepted frame of type 0, 1, 4
\* or 13, the snapshot fields that type carries equal the values decoded from the
\* frame, whatever happened before (a disconnect reset included).
C9_AppliedFrameShows ==
    [][\A data \in StoreFrames :
          (CanNotify /\ ~Rejected(data) /\ message_handler(data))
             => ShowsFrame(ctr_data', data)]_vars

\* message_handler's effect on the store for an accepted frame.
Handle(cd, data) == ApplyFrame([cd EXCEPT !.last_update = 0], data)

TelemetryFrames == {data \in StoreFrames : ~Rejected(data) /\ B(data, 1) \in {0, 1, 4, 13}}

\* has_changes() after the frame is applied to cd with the flag consumed before.
ChangedFirst(cd, data) == has_changes(Handle(has_changes(cd).cd, data)).result
\* has_changes() after the frame is applied a second time, the flag consumed in between.
ChangedSecond(cd, data) ==
    LET once == has_changes(Handle(has_changes(cd).cd, data)).cd
    IN  has_changes(Handle(once, data)).result

\* The (key, value) updates a frame asks for, given the store it is applied to.
Carried(cd, data) ==
    LET index == B(data, 1) IN
    CASE index = 0 -> {<<"rpm", Rpm(data)>>, <<"gear", Gear(data)>>,
                       <<"power", Power(data, cd.voltage)>>, <<"speed", Speed(Rpm(data))>>}
      [] index = 1 -> {<<"voltage", Word(B(data, 2), B(data, 3))>>}
      [] index = 4 -> {<<"controller_temp", B(data, 2)>>}
      [] index = 13 -> {<<"motor_temp", B(data, 2)>>, <<"throttle", Word(B(data, 4), B(data, 5))>>}
      [] OTHER -> {}

\* C10 as stated: in every store the session reaches, a telemetry packet applied
\* twice in a row (change flag consumed in between, nothing else in between)
\* gives changed = true after the first application and false after the second.
C10_TwiceChangedThenNot ==
    \A data \in TelemetryFrames :
        ChangedFirst(ctr_data, data) /\ ~ChangedSecond(ctr_data, data)

\* C10 amended: the second application gives changed = false; the first gives
\* changed = true exactly when a value the packet carries was never applied
\* before or differs from the value last applied for its field.
C10_SecondNeverChanged ==
    \A data \in StoreFrames :
        ~Rejected(data) =>
            /\ ~ChangedSecond(ctr_data, data)
            /\ ChangedFirst(ctr_data, data)
                  = (\E kv \in Carried(ctr_data, data) :
                        ctr_data.last_values[kv[1]] # <<kv[2]>>)

\* A main-data frame (rpm 5000) has been applied and its change consumed.
C10_Witness == ctr_data.last_values["rpm"] = <<5000>> /\ ~ctr_data.has_changes

\* C11: a field update whose new value equals the value the snapshot holds for
\* that field changes nothing: not the changed flag, not last_update, not the
\* recorded samples; in every reachable state, the first update of a field with
\* its initial value 0 included.
C11_EqualValueIsNoOp ==
    \A key \in Keys : update_value(ctr_data, key, ctr_data[key]) = ctr_data

AllZero(cd) == \A key \in Keys : cd[key] = 0

\* C13 as stated: once the connected flag is cleared, the store is reset to all
\* zero (eventually, if the flag is not set again first), and the poll signals a
\* change whenever the flag is clear.
C13_DisconnectedResets ==
    /\ [](~is_connected => data_changed(has_changes(ctr_data).result))
    /\ (~is_connected ~> (AllZero(ctr_data) \/ is_connected))

\* C13 amended: a poll (update_display) that runs while the display is not paused
\* and the connected flag is clear resets the eight fields to zero and signals a
\* change whatever the values were; so with the flag clear and the display not
\* paused the store is eventually all zero, unless the flag is set again or the
\* display is paused first.  A paused display resets nothing.
C13_UnpausedPollResets ==
    /\ [](~is_connected => data_changed(has_changes(ctr_data).result))
    /\ [][(UpdateDisplay /\ ~terminal_paused /\ ~is_connected)
            => AllZero(ctr_data')]_vars
    /\ ((~is_connected /\ ~terminal_paused)
          ~> (AllZero(ctr_data) \/ is_connected \/ terminal_paused))

\* The session is disconnected and the store that held rpm 5000 has been reset.
C13_Witness ==
    /\ ~is_connected
    /\ ~terminal_paused
    /\ ctr_data.last_values["rpm"] = <<5000>>
    /\ AllZero(ctr_data)

\* The last n entries of seq, in the order of seq.
LastN(seq, n) == SubSeq(seq, Max(Len(seq) - n, 0) + 1, Len(seq))

\* C14: the packet history never holds more than max_history entries, and each
\* accepted frame leaves in it the most recent max_history entries in arrival
\* order: the entries it held followed by the new one, less the oldest when it
\* was full.
C14_HistoryBoundedFifo ==
    /\ [](Len(packet_history) <= max_history)
    /\ [][\A data \in StoreFrames :
            (CanNotify /\ ~Rejected(data) /\ message_handler(data))
               => packet_history'
                    = LastN(Append(packet_history, PacketInfo(data)), max_history)]_vars

\* Voltage, controller temperature and motor temperature frames have been
\* accepted, and the full history no longer holds the voltage frame.
C14_Witness ==
    /\ ctr_data.last_values["voltage"] # <<>>
    /\ Len(packet_history) = max_history
    /\ {packet_history[i].index : i \in DOMAIN packet_history} = {4, 13}

\* C15: for every n >= 0, get_recent_packets(n) returns the last min(n, size)
\* entries of the history in arrival order, and so never more than n entries.
C15_RecentIsLastN ==
    \A n \in 0..MaxCount :
        /\ get_recent_packets(packet_history, n)
             = LastN(packet_history, Min(n, Len(packet_history)))
        /\ Len(get_recent_packets(packet_history, n)) <= n

StatsKeys ==
    {"total_packets", "valid_packets", "checksum_errors", "index_distribution", "error_rate"}

\* C16: get_packet_statistics always returns a value that has the total, the
\* valid count, the checksum errors, the per-type distribution and the error
\* rate, the error rate being checksum_errors / total for a non-empty history and
\* 0 for an empty one.
C16_StatsAlwaysComplete ==
    LET stats == get_packet_statistics(packet_history)
        errors == Cardinality({i \in DOMAIN packet_history :
                                  ~packet_history[i].checksum_valid})
    IN  /\ DOMAIN stats = StatsKeys
        /\ stats.total_packets = Len(packet_history)
        /\ IF Len(packet_history) > 0
           THEN stats.error_rate[1] * Len(packet_history) = errors * stats.error_rate[2]
           ELSE stats.error_rate[1] = 0

\* The fields whose stored value a step changes.
ChangedFields == {key \in Keys : ctr_data'[key] # ctr_data[key]}

\* C17: while a recording is active a frame that changes k fields appends k
\* samples, one for each field update that changes a value; while no recording
\* is active no sample is appended.
C17_OneSamplePerChange ==
    [][ /\ \A data \in RecorderFrames :
             (CanNotify /\ ~Rejected(data) /\ ctr_data.recording /\ message_handler(data))
                => Len(ctr_data'.recorded_data)
                     = Len(ctr_data.recorded_data) + Cardinality(ChangedFields)
        /\ (~ctr_data.recording /\ ~ctr_data'.recording)
              => ctr_data'.recorded_data = ctr_data.recorded_data ]_vars

\* C18: start_recording called while a recording is active returns False and
\* leaves the active flag, the start time, the samples and the sink as they are,
\* whatever the file system would do.
C18_StartWhileActiveFails ==
    ctr_data.recording =>
        \A sink \in SinkOutcomes :
            start_recording(ctr_data, sink) = [result |-> "False", cd |-> ctr_data]

\* A recording with a sink is active and holds samples.
C18_Witness ==
    ctr_data.recording /\ ctr_data.csv_file # <<>> /\ ctr_data.recorded_data # <<>>

\* C19: when a persisted sink is asked for (auto-save on) and the file system
\* fails, start_recording returns False, no recording is active and no sink is
\* attached afterwards, and it does not start a memory-only recording.
C19_SinkFailureReported ==
    (auto_save /\ ~ctr_data.recording) =>
        \A sink \in SinkOutcomes \ {"ok"} :
            LET r == start_recording(ctr_data, sink)
            IN  /\ r.result = "False"
                /\ ~r.cd.recording
                /\ r.cd.csv_file = <<>>
                /\ r.cd.recorded_data = ctr_data.recorded_data

\* C20: stop_recording clears the active flag and detaches the sink; a recording
\* that starts holds no sample; and every sample held carries the start time of
\* the latest recording, over MaxSessions recordings.
C20_SessionsIndependent ==
    /\ [](ctr_data.recording =>
             /\ ~stop_recording(ctr_data).recording
             /\ stop_recording(ctr_data).csv_file = <<>>)
    /\ [][(ctr_data.recording /\ ~ctr_data'.recording) => ctr_data'.csv_file = <<>>]_vars
    /\ [][(~ctr_data.recording /\ ctr_data'.recording)
            => ctr_data'.recorded_data = <<>>]_vars
    /\ [](\A i \in DOMAIN ctr_data.recorded_data :
             ctr_data.recorded_data[i].timestamp = ctr_data.recording_start_time)

\* The third recording is active and holds samples.
C20_Witness ==
    /\ ctr_data.recording
    /\ ctr_data.recording_start_time = MaxSessions
    /\ ctr_data.recorded_data # <<>>

\* The eight telemetry fields of the store.
Telemetry(cd) == [k \in Keys |-> cd[k]]

\* C21: a frame whose length is not 16, shorter or longer, is rejected by
\* message_handler: it is counted as an error and leaves the packet history,
\* the telemetry fields and the changed flag as they were.
C21_WrongLengthRejected ==
    [][\A data \in DecodeFrames :
          (Len(data) # 16 /\ CanNotify /\ message_handler(data))
             => /\ packet_history' = packet_history
                /\ Telemetry(ctr_data') = Telemetry(ctr_data)
                /\ ctr_data'.has_changes = ctr_data.has_changes
                /\ ctr_data'.packet_errors = ctr_data.packet_errors + 1]_vars

\* C22: a frame that fails the length check (fewer than 16 bytes) or the header
\* check is dropped: the step that delivers it leaves the telemetry fields, the
\* changed flag, last_update, the recorder, the packet history and is_connected
\* as they were and adds exactly one to packet_errors; the session is as before,
\* so that later frames are still delivered.
C22_RejectedFrameDropped ==
    [][\A data \in DropFrames :
          (Rejected(data) /\ CanNotify /\ message_handler(data))
             => /\ ctr_data' = [ctr_data EXCEPT !.packet_errors = @ + 1]
                /\ packet_history' = packet_history
                /\ is_connected' = is_connected
                /\ CanNotify']_vars

\* A frame was rejected after Disconnect() had cleared is_connected, while a
\* recording held samples and the packet history held an entry.
C22_Witness ==
    /\ ctr_data.packet_errors = 1
    /\ ~is_connected
    /\ ctr_data.recorded_data # <<>>
    /\ packet_history # <<>>

\* Bit k of n.
Bit(n, k) == (n \div (2 ^ k)) % 2

\* The XOR of bytes first to last of data, bit by bit: bit k is set exactly when
\* an odd number of those bytes have it set.
XorOfBytes(data, first, last) ==
    LET ones(k) == Cardinality({i \in first..last : Bit(B(data, i), k) = 1})
        value[k \in 0..8] == IF k = 8 THEN 0 ELSE (ones(k) % 2) * (2 ^ k) + value[k + 1]
    IN  value[0]

\* The XOR of bytes 1 to 13 of each frame of DecodeFrames that passes the length
\* and header checks.
ReferenceChecksum ==
    [data \in {d \in DecodeFrames : ~Rejected(d)} |-> XorOfBytes(data, 1, 13)]

\* C23: for every frame that passes the length and header checks, of whatever
\* type index, the entry analyze_packet records has checksum_valid true exactly
\* when the XOR of bytes 1 to 13 equals byte 14.
C23_ChecksumFlag ==
    [][\A data \in DecodeFrames :
          (~Rejected(data) /\ CanNotify /\ message_handler(data))
             => /\ packet_history' # <<>>
                /\ packet_history'[Len(packet_history')].index = B(data, 1)
                /\ packet_history'[Len(packet_history')].checksum_valid
                      = (ReferenceChecksum[data] = B(data, 14))]_vars

\* The history holds an entry of the unknown type 5 whose checksum byte matched
\* and an entry of main data whose checksum byte did not.
C23_Witness ==
    /\ \E i \in DOMAIN packet_history :
          packet_history[i].index = 5 /\ packet_history[i].checksum_valid
    /\ \E i \in DOMAIN packet_history :
          packet_history[i].index = 0 /\ ~packet_history[i].checksum_valid

\* Values of the checksum byte tried in place of the one a frame carries.
ChecksumBytes == {0, 1, 5, 134, 148, 255}

\* C24: a frame that passes the length and header checks is recorded in the
\* packet history, with checksum_valid false when its checksum byte is wrong,
\* and leaves the store (fields, changed flag, recorded samples; the latency
\* it measures aside) and is_connected exactly as the same frame with any other checksum byte, the
\* correct one included, applied to the same store.
C24_ChecksumNeverBlocks ==
    [][\A data \in DecodeFrames :
          (~Rejected(data) /\ CanNotify /\ message_handler(data))
             => /\ packet_history' =
                      LastN(Append(packet_history,
                                   [valid |-> TRUE, index |-> B(data, 1),
                                    checksum_valid |->
                                        (B(data, 14) = ReferenceChecksum[data])]),
                            max_history)
                /\ is_connected'
                /\ \A c \in ChecksumBytes :
                      [ctr_data' EXCEPT !.latency_samples = ctr_data.latency_samples,
                                        !.avg_latency = ctr_data.avg_latency]
                        = Handle(ctr_data, [data EXCEPT ![15] = c])]_vars

\* A main-data frame with a wrong checksum byte was recorded as such while a
\* recording was active: its rpm is in the store and in the last sample.
C24_Witness ==
    /\ packet_history # <<>>
    /\ packet_history[Len(packet_history)] =
           [valid |-> TRUE, index |-> 0, checksum_valid |-> FALSE]
    /\ ctr_data.rpm = 5000
    /\ ctr_data.recorded_data # <<>>
    /\ ctr_data.recorded_data[Len(ctr_data.recorded_data)].rpm = 5000

\* C25: a keepalive is written only in the keepalive loop of an Active session:
\* the worker reaches the write only from a loop check (line 2539) that found
\* is_connected true and should_disconnect false, and every write that goes out
\* is issued on a client whose notification subscription succeeded.
C25_KeepAliveOnlyActive ==
    [][\A w \in Workers :
          /\ (wpc[w] # "ka_write" /\ wpc'[w] = "ka_write")
                => (wpc[w] = "ka_while" /\ is_connected /\ ~should_disconnect)
          /\ KeepAliveWriteOk(w) => sub[client]]_vars

\* A keepalive has gone out on the subscribed client of device 2: the worker
\* is in the sleep that follows the write.
C25_Witness ==
    \E w \in Workers :
        /\ wpc[w] = "ka_sleep"
        /\ client = 2 /\ sub[2]
        /\ is_connected /\ ~should_disconnect
        /\ req = "connect"

\* What the four widgets show when every field is read between two frames: the
\* initial zeros, or the values of one main-data frame (its power computed from
\* the voltage of some earlier voltage frame, or from the initial 0).
WholeSnapshots ==
    {<<0, 0, 0, 0>>} \cup
    { <<Power(data, voltage), Speed(Rpm(data)), Rpm(data), Gear(data)>> :
        data \in {d \in RaceFrames : B(d, 1) = 0},
        voltage \in {0} \cup {Word(B(d, 2), B(d, 3)) : d \in {f \in RaceFrames : B(f, 1) = 1}} }

\* C26: the power, speed, rpm and gear that one run of update_display shows all
\* come from the same main-data frame, or all from the state before it.
C26_NoTornSnapshot ==
    (display.pc = "idle" /\ Len(display.shown) = Len(ShownKeys))
        => display.shown \in WholeSnapshots

\* C27: a has_changes() call that returns false does not clear a flag that an
\* update_value call has set: every change is reported by the call under way
\* or is left for a later call.
C27_NoLostChange ==
    [][(DisplayClearFlag /\ ~display.changed) => ~ctr_data.has_changes]_vars

\* The sample that holds the fields of cd.
SampleOf(cd) ==
    [timestamp |-> cd.recording_start_time,
     throttle |-> cd.throttle, gear |-> cd.gear, rpm |-> cd.rpm,
     controller_temp |-> cd.controller_temp, motor_temp |-> cd.motor_temp,
     speed |-> cd.speed, power |-> cd.power, voltage |-> cd.voltage]

\* C28: message_handler records an accepted frame in the packet history before
\* it updates any telemetry field of it, and a sample caused by a field update
\* is appended after that update and before the next one: the step that
\* records the packet leaves the fields and the samples as they were, and each
\* later step leaves the history alone, changes no field but its own and
\* appends at most one sample, which holds the fields as they are after it.
C28_HistoryThenFieldThenSample ==
    [][/\ \A data \in RecorderFrames :
             (~Rejected(data) /\ HandlerStart({data}))
                => /\ packet_history'
                        = LastN(Append(packet_history, PacketInfo(data)), max_history)
                   /\ Telemetry(ctr_data') = Telemetry(ctr_data)
                   /\ ctr_data'.recorded_data = ctr_data.recorded_data
                   /\ handler' = FieldUpdates(ctr_data, data)
       /\ HandlerUpdate
             => /\ packet_history' = packet_history
                /\ \A k \in Keys \ {handler[1][1]} : ctr_data'[k] = ctr_data[k]
                /\ \/ ctr_data'.recorded_data = ctr_data.recorded_data
                   \/ /\ ctr_data'.recorded_data
                            = Append(ctr_data.recorded_data, SampleOf(ctr_data'))
                      /\ ctr_data'[handler[1][1]] = handler[1][2]]_vars

\* A main-data frame (rpm 5000) is in the history and half applied while a
\* recording is active: the last sample holds its rpm and gear and the speed
\* of before.
C28_Witness ==
    /\ Len(handler) = 2
    /\ packet_history # <<>>
    /\ packet_history[Len(packet_history)].index = 0
    /\ ctr_data.recording
    /\ ctr_data.recorded_data # <<>>
    /\ LET last == ctr_data.recorded_data[Len(ctr_data.recorded_data)]
       IN  last.rpm = 5000 /\ last.gear = 2 /\ last.speed = 0

\* The telemetry fields a frame type carries.
OwnFields(index) ==
    CASE index = 0 -> {"rpm", "gear", "power", "speed"}
      [] index = 1 -> {"voltage"}
      [] index = 4 -> {"controller_temp"}
      [] index = 13 -> {"motor_temp", "throttle"}
      [] OTHER -> {}

\* C29: an accepted frame changes no telemetry field but those of its type
\* (a voltage frame changes neither power nor speed), and a frame of any other
\* type index changes none of the eight fields, leaves the changed flag as it
\* was and appends no sample.
C29_OnlyOwnFields ==
    [][\A data \in DecodeFrames :
          (~Rejected(data) /\ CanNotify /\ message_handler(data))
             => /\ \A k \in Keys \ OwnFields(B(data, 1)) : ctr_data'[k] = ctr_data[k]
                /\ B(data, 1) \notin {0, 1, 4, 13}
                      => /\ ctr_data'.has_changes = ctr_data.has_changes
                         /\ ctr_data'.recorded_data = ctr_data.recorded_data]_vars

\* A voltage frame (90.0 V) was the last one recorded, after main data with a
\* current: the power is still the one computed from the voltage of before.
C29_Witness ==
    /\ packet_history # <<>>
    /\ packet_history[Len(packet_history)].index = 1
    /\ ctr_data.voltage = 900
    /\ ctr_data.rpm = 5000
    /\ ctr_data.last_values["power"] = <<0>>

\* Byte values tried in the payload of a frame.
ByteSamples == {0, 3, 8, 132, 255}

\* C30: for every 16-byte frame with header 0xAA applied to a store the decoder
\* reaches, the stored values match the reference: main data gives
\* rpm = 256*b[4] + b[5], within 0..65535, and gear = min(3, max(1, (b[2]>>2) & 3));
\* a voltage frame gives (256*b[2] + b[3]) / 10 volts, kept in tenths (bytes
\* 0x03 0x84 give 90.0 V = 900); a controller frame gives controller_temp = b[2];
\* a motor frame gives motor_temp = b[2] and throttle = 256*b[4] + b[5].
C30_DecodedValues ==
    /\ \A b2, b4, b5 \in ByteSamples :
          LET main == Handle(ctr_data, MkFrame(170, 0, b2, 0, b4, b5, 0, 0))
              motor == Handle(ctr_data, MkFrame(170, 13, b2, 0, b4, b5, 0, 0))
          IN  /\ main.rpm = 256 * b4 + b5
              /\ main.rpm \in 0..65535
              /\ main.gear = Min(3, Max(1, (b2 \div 4) % 4))
              /\ motor.motor_temp = b2
              /\ motor.throttle = 256 * b4 + b5
    /\ \A b2, b3 \in ByteSamples :
          /\ Handle(ctr_data, MkFrame(170, 1, b2, b3, 0, 0, 0, 0)).voltage = 256 * b2 + b3
          /\ Handle(ctr_data, MkFrame(170, 4, b2, b3, 0, 0, 0, 0)).controller_temp = b2
    /\ Handle(ctr_data, MkFrame(170, 1, 3, 132, 0, 0, 0, 0)).voltage = 900

\* Frames of all four types have been decoded into the store.
C30_Witness ==
    /\ ctr_data.rpm = 5000 /\ ctr_data.gear = 2
    /\ ctr_data.voltage = 900
    /\ ctr_data.controller_temp = 40
    /\ ctr_data.motor_temp = 50 /\ ctr_data.throttle = 4095

\* The scan pass of worker w ends: the check of line 2574 after the for loop.
PassEnds(w) == wpc[w] = "retry_chk" /\ wpc'[w] # "retry_chk"

\* C31: when a scan pass ends with no device left to try and no Disconnect() is
\* pending, the worker sleeps the retry delay and eventually scans again (or a
\* Disconnect() is requested meanwhile); when the pass ends while the last
\* request is a Disconnect(), the worker leaves the scan loop, and once out of
\* the loop it does not scan before scan_and_connect returns.
C31_NoMatchRetriesUnlessDisconnect ==
    /\ [][\A w \in Workers :
            /\ (PassEnds(w) /\ req # "disconnect" /\ ~should_disconnect)
                  => wpc'[w] = "retry_sleep"
            /\ (PassEnds(w) /\ req = "disconnect") => wpc'[w] = "sc_end"
            /\ (wpc[w] = "retry_sleep" /\ wpc'[w] # "retry_sleep") => wpc'[w] = "sc_while"
            /\ (wpc[w] = "sc_end" /\ wpc'[w] # "sc_end") => wpc'[w] = "hold_chk"]_vars
    /\ \A w \in Workers :
          (wpc[w] = "for" /\ devs[w] = <<>> /\ req # "disconnect")
             ~> (wpc[w] = "scan" \/ req = "disconnect")

\* ---------------------------------------------------------------------------
\* The name filter of the scan
\* ---------------------------------------------------------------------------

\* Names a scan may report: None, a name that holds "FarDriver" inside, the same
\* letters in lower case, the YuanQu name, and the YuanQu name one character short.
NameSamples ==
    { <<>>,
      <<"M", "y">> \o FarDriver \o <<"1">>,
      <<"f", "a", "r", "d", "r", "i", "v", "e", "r">>,
      YUANQU_DEVICE_NAME,
      SubSeq(YUANQU_DEVICE_NAME, 1, Len(YUANQU_DEVICE_NAME) - 1) }

\* The session of Init with any of the names on each device.
ScanInit ==
    /\ Init
    /\ ctr_data = ControllerDataInit
    /\ packet_history = <<>>
    /\ max_history = SessionHistoryCapacity
    /\ latency_window = SessionLatencyWindow
    /\ latencies = SessionLatencies
    /\ device_name \in [Dev -> NameSamples]
    /\ auto_save = TRUE
    /\ handler = <<>>
    /\ display = DisplayIdle
    /\ terminal_paused = FALSE
    /\ last_connection_state = TRUE
    /\ connect_btn = "normal"

\* The session without telemetry: the buttons, the workers, the link, the
\* display timer and the clock.
ScanNext ==
    \/ Gui
    \/ DisconnectClient
    \/ \E w \in Workers : Worker(w)
    \/ \E d \in Dev : LinkLoss(d)
    \/ UpdateDisplay
    \/ Tick

ScanSpec == ScanInit /\ [][ScanNext]_vars

\* The names of NameSamples that hold "FarDriver" or "YuanQuFOC982".
MatchingSamples == { <<"M", "y", "F", "a", "r", "D", "r", "i", "v", "e", "r", "1">>,
                     <<"Y", "u", "a", "n", "Q", "u", "F", "O", "C", "9", "8", "2">> }

\* C32: a worker makes a BleakClient for, and connects to, only a device whose
\* advertised name is present and holds "FarDriver" or "YuanQuFOC982" with the
\* same case; the link of a device with no name or another name is never up.
C32_ConnectsOnlyMatchingNames ==
    [][/\ \A w \in Workers :
             (wpc[w] # "connect" /\ wpc'[w] = "connect")
                => (client' \in Dev /\ device_name[client'] \in MatchingSamples)
       /\ \A d \in Dev :
             (~conn[d] /\ conn'[d]) => device_name[d] \in MatchingSamples]_vars

\* The link of device 2, whose name holds "FarDriver" inside, is up while
\* device 1 advertises the lower-case name and has no link.
C32_Witness ==
    /\ conn[2] /\ ~conn[1]
    /\ device_name[2] = <<"M", "y">> \o FarDriver \o <<"1">>
    /\ device_name[1] = <<"f", "a", "r", "d", "r", "i", "v", "e", "r">>
    /\ \E w \in Workers : wpc[w] = "ka_sleep"

\* ---------------------------------------------------------------------------
\* The sign of the power
\* ---------------------------------------------------------------------------

\* A main-data frame with the current bytes b8..b11.
CurrentFrame(b8, b9, b10, b11) ==
    [MkFrame(170, 0, 8, 0, 19, 136, b9, b11) EXCEPT ![9] = b8, ![11] = b10]

\* Voltage frames of 0.1 V and of 0 V, and main-data frames whose current bytes
\* have the top bit set (iq = 0x8000; id = 0x8003), have it clear, and are zero.
\* The voltage is small so that the square of the power, which is what the model
\* keeps, stays below 2^31.
PowerFrames ==
    { MkFrame(170, 1, 0, 1, 0, 0, 0, 0),
      MkFrame(170, 1, 0, 0, 0, 0, 0, 0),
      CurrentFrame(128, 0, 0, 0),
      CurrentFrame(0, 4, 128, 3),
      CurrentFrame(0, 3, 0, 4),
      CurrentFrame(0, 0, 0, 0) }

\* Frames arrive on a live session while the user starts and stops a recording
\* and the display timer runs.
PowerNext ==
    \/ (Len(ctr_data.recorded_data) + 4 <= DecodeSamples /\ Notification(PowerFrames))
    \/ ToggleRecording
    \/ UpdateDisplay

PowerSpec == StoreInit /\ [][PowerNext]_vars

\* High and low bytes of the one current that is given its top bit, and the low
\* byte of the other.
HighSamples == {0, 128}
LowSamples == {0, 3, 255}

\* C33: the stored power, and the power of every recorded sample, is never above
\* 0; a main-data frame whose iq or id bytes have the top bit set or clear stores
\* minus the magnitude of the unsigned currents (256*b8 + b9, 256*b10 + b11) times
\* the voltage the store holds when the frame is processed, which is 0 when that
\* voltage is 0 (the power being kept as the signed square of its value).
C33_PowerNeverPositive ==
    /\ ctr_data.power <= 0
    /\ \A i \in 1..Len(ctr_data.recorded_data) : ctr_data.recorded_data[i].power <= 0
    /\ ctr_data.voltage >= 0
    /\ \A hi \in HighSamples : \A lo, other \in LowSamples :
          LET v2 == ctr_data.voltage * ctr_data.voltage
              big == 256 * hi + lo
              reference == -((big * big + other * other) * v2)
              iqTop == Handle(ctr_data, CurrentFrame(hi, lo, 0, other)).power
              idTop == Handle(ctr_data, CurrentFrame(0, other, hi, lo)).power
          IN  /\ iqTop = reference /\ idTop = reference
              /\ iqTop <= 0 /\ idTop <= 0
              /\ ctr_data.voltage = 0 => (iqTop = 0 /\ idTop = 0)

\* A frame with iq bytes 0x8000 has been processed at 0.1 V: the stored power is
\* minus 32768 hundredths of an ampere times 1 tenth of a volt, and a sample
\* holds it.
C33_Witness ==
    /\ ctr_data.voltage = 1
    /\ ctr_data.power = -(32768 * 32768)
    /\ \E i \in 1..Len(ctr_data.recorded_data) :
          ctr_data.recorded_data[i].power = ctr_data.power

\* ---------------------------------------------------------------------------
\* The samples of one frame
\* ---------------------------------------------------------------------------

\* C34: in every sample the recorder holds, the speed is the one derived from
\* the rpm of the same sample (speed = rpm / 4 * 1.350 * 0.06, kept in 1/4000
\* km/h): no sample holds the rpm of one main-data frame with the speed of an
\* earlier one.
C34_SampleOfOneFrame ==
    \A i \in 1..Len(ctr_data.recorded_data) :
        ctr_data.recorded_data[i].speed = ctr_data.recorded_data[i].rpm * 81

\* ---------------------------------------------------------------------------
\* The statistics of the ring buffer
\* ---------------------------------------------------------------------------

\* The sum of the counts of a distribution over the indices in S.
RECURSIVE SumOf(_, _)
SumOf(counts, S) ==
    IF S = {} THEN 0
    ELSE LET x == CHOOSE y \in S : TRUE
         IN  counts[x] + SumOf(counts, S \ {x})

\* C35: no entry of the packet history is a rejected frame, so the statistics of
\* a non-empty history have total = valid = the sum of the per-type counts = the
\* number of entries held, which is at most the capacity, and checksum errors
\* <= total; a rejected frame leaves the statistics as they are, and an accepted
\* frame that arrives at a full history leaves the total at the capacity: the
\* counts are those of the entries still held, not of all frames received.
C35_StatsOfEntriesHeld ==
    LET stats == get_packet_statistics(packet_history)
    IN  /\ \A i \in DOMAIN packet_history : packet_history[i].valid
        /\ packet_history # <<>> =>
              /\ stats.total_packets = Len(packet_history)
              /\ stats.valid_packets = stats.total_packets
              /\ SumOf(stats.index_distribution, DOMAIN stats.index_distribution)
                    = stats.total_packets
              /\ stats.total_packets <= max_history
              /\ stats.checksum_errors <= stats.total_packets
        /\ \A data \in DecodeFrames :
              LET after == analyze_packet(packet_history, data)
              IN  IF Rejected(data)
                  THEN get_packet_statistics(after) = stats
                  ELSE get_packet_statistics(after).total_packets
                         = Min(Len(packet_history) + 1, max_history)

\* The history is full with frames of two types, one of them with a checksum
\* mismatch, and a rejected frame has been received as well.
C35_Witness ==
    /\ Len(packet_history) = max_history
    /\ ctr_data.packet_errors > 0
    /\ get_packet_statistics(packet_history).checksum_errors = 1
    /\ Cardinality(DOMAIN get_packet_statistics(packet_history).index_distribution) = 2

\* ---------------------------------------------------------------------------
\* The latency window
\* ---------------------------------------------------------------------------

\* Latencies in milliseconds that message_handler measures.
LatencySamples == {0, 2, 5}

\* A frame of an unknown type, a voltage frame, and a frame with a wrong header.
LatencyFrames ==
    { MkFrame(170, 5, 0, 0, 0, 0, 0, 0),
      MkFrame(170, 1, 3, 132, 0, 0, 0, 0),
      MkFrame(85, 0, 0, 0, 0, 0, 0, 0) }

\* The live session of StoreInit with a window of LatencyWindow samples, a
\* clock that tells the latencies apart, and a packet history that holds one
\* entry more than the window.
LatencyInit ==
    /\ ActiveState
    /\ ctr_data = ControllerDataInit
    /\ packet_history = <<>>
    /\ max_history = LatencyWindow + 1
    /\ latency_window = LatencyWindow
    /\ latencies = LatencySamples
    /\ device_name = SessionNames
    /\ auto_save = TRUE
    /\ handler = <<>>
    /\ display = DisplayIdle
    /\ terminal_paused = FALSE
    /\ last_connection_state = TRUE
    /\ connect_btn = "normal"

\* Frames arrive while the display timer runs.
LatencyNext ==
    \/ Notification(LatencyFrames)
    \/ UpdateDisplay

LatencySpec == LatencyInit /\ [][LatencyNext]_vars

\* C36: the latency window never holds more samples than its capacity; an
\* accepted frame appends its latency and leaves the window with the last
\* min(capacity, n) samples in arrival order (the earlier window, the new sample
\* behind it, cut to the newest capacity), a rejected frame leaves the window
\* alone, and the stored average is the sum of exactly the samples of the window
\* over their number.
C36_LatencyWindowIsLastSamples ==
    /\ ctr_data.latency_samples = <<>>
    /\ [][ /\ Len(ctr_data'.latency_samples) <= latency_window
           /\ (ctr_data'.latency_samples # <<>>) =>
                 (ctr_data'.avg_latency
                   = <<SumOf(ctr_data'.latency_samples, DOMAIN ctr_data'.latency_samples),
                       Len(ctr_data'.latency_samples)>>)
           /\ \A data \in LatencyFrames :
                 (CanNotify /\ message_handler(data))
                    => IF Rejected(data)
                       THEN ctr_data'.latency_samples = ctr_data.latency_samples
                       ELSE /\ \E latency \in latencies :
                                  ctr_data'.latency_samples
                                    = LastN(Append(ctr_data.latency_samples, latency),
                                            latency_window)
                            /\ Len(ctr_data'.latency_samples)
                                  = Min(latency_window,
                                        Len(ctr_data.latency_samples) + 1)
           /\ (\A frame \in LatencyFrames : ~(CanNotify /\ message_handler(frame)))
                 => (ctr_data'.latency_samples = ctr_data.latency_samples) ]_vars

\* More frames than the window holds have been accepted (the packet history
\* has one entry more) and one has been rejected: the window is full, starts
\* with the latencies 5, 0, 2 in that order, and the average is over as many
\* samples as the window holds.
C36_Witness ==
    /\ Len(packet_history) > latency_window
    /\ Len(ctr_data.latency_samples) = latency_window
    /\ SubSeq(ctr_data.latency_samples, 1, 3) = <<5, 0, 2>>
    /\ ctr_data.avg_latency[2] = latency_window
    /\ ctr_data.packet_errors > 0

====
